---- MODULE Spec2Model ----
(***************************************************************************)
(* A model of the miqro service runtime (src/miqro/__init__.py): the      *)
(* publish pipeline with its change-detection cache, the topic router,    *)
(* and the cooperative scheduler that runs the periodic loops.            *)
(*                                                                         *)
(* Time is a natural number of clock units; datetime.now() reads `now`.   *)
(* Topics and strings are sequences of symbols, so that concatenation,    *)
(* startswith and slicing are the sequence operations of the code.        *)
(***************************************************************************)
EXTENDS Integers, Sequences, FiniteSets, TLC

VARIABLES
    now,              \* the wall clock read by datetime.now()
    last_key_values,  \* Service.last_key_values: topic -> cache entry
    handed,           \* per topic, the last message handed to mqtt_client.publish
    pub,              \* the most recent Service.publish call and its outcome
    mqtt_handlers,         \* Service.mqtt_handlers: the local registrations
    mqtt_global_handlers,  \* Service.mqtt_global_handlers: the global registrations
    is_connected,     \* Service.is_connected
    subscribed,       \* the topics given to client.subscribe since the last connect
    enabled,          \* Service.enabled
    rt,               \* the most recent Service._on_message call and what it did
    conn,             \* where the transport thread is inside Service._on_connect
    adding,           \* where the registering thread is inside add_handler
    cb,               \* the most recent connection callback and its result code
    next_call,        \* Loop.next_call of every loop of Service.LOOPS (None when unset)
    stat_call_count,  \* Loop.stat_call_count of every loop
    stat_cumulative_duration,  \* Loop.stat_cumulative_duration of every loop
    stop,             \* Service.stop, the flag Service.run checks
    sched,            \* where Service.run is: its position, its local variables, and the
                      \* loops it has fired in the tick it is in
    stopped,          \* per loop: stop() was called and start()/restart() not since
    ext_calls,              \* the number of start/stop calls made from outside the run loop
    ev,               \* the most recent step of the scheduler or call on a loop
    since_reset,      \* per loop: the task calls that returned since the last stat_reset
    broker,           \* the messages the broker still has to deliver to this client
    e2e,              \* per publish of a loop task: when it was made, the calls it led to
    state_data,       \* State._data: the document of the persisted store
    st,               \* the most recent State.set_path or State.get_path call
    ha_devices,       \* Service.ha_devices: the devices of the service
    dev_entities,     \* per device of ha_devices: Device.__entities
    ha_entities,      \* Service.ha_entities: the entities without a device
    ha,               \* the most recent construction of a device or an entity
    race,             \* two threads inside Service.publish: where each is, and the calls
                      \* of the transport they made
    classes,          \* the service classes defined so far and their class attributes
    inst              \* the most recent construction of a service and what it got

pubVars == <<last_key_values, handed, pub>>

routeVars == <<mqtt_handlers, mqtt_global_handlers, is_connected, subscribed, enabled, rt,
               conn, adding, cb>>

loopVars == <<next_call, stat_call_count, stat_cumulative_duration, stop, sched, stopped,
              ext_calls, ev, since_reset>>

netVars == <<broker, e2e>>

storeVars == <<state_data, st>>

\* What stands beside the service core.
haVars == <<ha_devices, dev_entities, ha_entities, ha>>

\* Two publishing threads; the classes of the process.
lateVars == <<race, classes, inst>>

compVars == <<storeVars, haVars, lateVars>>

vars == <<now, last_key_values, handed, pub, mqtt_handlers, mqtt_global_handlers,
          is_connected, subscribed, enabled, rt, conn, adding, cb, next_call,
          stat_call_count, stat_cumulative_duration, stop, sched, stopped, ext_calls, ev,
          since_reset, broker, e2e, state_data, st, ha_devices, dev_entities,
          ha_entities, ha,
          race, classes, inst>>

(***************************************************************************)
(* Bounds of the model.                                                    *)
(***************************************************************************)
MaxTime == 3

\* Floats are decimals with FloatDigits fractional digits: n stands for n / 10^FloatDigits.
FloatDigits == 7

\* Service.JSON_FLOAT_PRECISION
JSON_FLOAT_PRECISION == 4

\* Service.QOS_MAX_ONCE, the default qos of publish
QOS_MAX_ONCE == 0

RECURSIVE Pow10(_)
Pow10(k) == IF k <= 0 THEN 1 ELSE 10 * Pow10(k - 1)

\* The float written with the given number of decimals, units being its digits without
\* the point: Dec(126, 2) is 1.26.
Dec(units, decimals) == units * Pow10(FloatDigits - decimals)

(***************************************************************************)
(* Python values that publish accepts.  One record shape for all of them: *)
(* ty is the Python type, n the number (bool, int, float), s the symbols  *)
(* of a str or the keys of a dict, kids the values of a dict or the       *)
(* elements of a list or tuple.                                           *)
(***************************************************************************)
VBool(b) == [ty |-> "bool", n |-> IF b THEN 1 ELSE 0, s |-> <<>>, kids |-> <<>>]
VNone == [ty |-> "none", n |-> 0, s |-> <<>>, kids |-> <<>>]
VInt(i) == [ty |-> "int", n |-> i, s |-> <<>>, kids |-> <<>>]
VFloat(n) == [ty |-> "float", n |-> n, s |-> <<>>, kids |-> <<>>]
VStr(s) == [ty |-> "str", n |-> 0, s |-> s, kids |-> <<>>]
\* {keys[1]: kids[1], ...}
VMap(keys, kids) == [ty |-> "dict", n |-> 0, s |-> keys, kids |-> kids]
\* [kids[1], ...]
VSeq(kids) == [ty |-> "list", n |-> 0, s |-> <<>>, kids |-> kids]
\* (kids[1], ...)
VTuple(kids) == [ty |-> "tuple", n |-> 0, s |-> <<>>, kids |-> kids]
\* {k: n} and [n] with a float n
VDict(k, n) == VMap(<<k>>, <<VFloat(n)>>)
VList(n) == VSeq(<<VFloat(n)>>)

\* round(o, precision) on a float of FloatDigits decimals: to the nearest multiple of
\* the rounding unit, ties to even.
RoundTo(n, precision) ==
    LET u == Pow10(FloatDigits - precision)
        q == n \div u
        r == n % u
    IN  IF 2 * r < u THEN q * u
        ELSE IF 2 * r > u THEN (q + 1) * u
        ELSE IF q % 2 = 0 THEN q * u ELSE (q + 1) * u

RoundFloat(n) == RoundTo(n, JSON_FLOAT_PRECISION)

\* A _round_floats that rounds a float and the values of a dict, and leaves lists alone.
RECURSIVE RoundFloatsNoLists(_, _)
RoundFloatsNoLists(o, precision) ==
    IF o.ty = "float" THEN VFloat(RoundTo(o.n, precision))
    ELSE IF o.ty = "dict"
    THEN [o EXCEPT !.kids = [i \in 1..Len(o.kids) |-> RoundFloatsNoLists(o.kids[i], precision)]]
    ELSE o

\* Service._round_floats in a service whose JSON_FLOAT_PRECISION is precision: a float
\* is rounded, a dict keeps its keys and has its values rounded, a list or tuple becomes
\* the list of its rounded elements, everything else is returned as it is.
RECURSIVE RoundFloatsAt(_, _)
RoundFloatsAt(o, precision) ==
    IF o.ty = "float" THEN VFloat(RoundTo(o.n, precision))
    ELSE IF o.ty = "dict"
    THEN [o EXCEPT !.kids = [i \in 1..Len(o.kids) |-> RoundFloatsAt(o.kids[i], precision)]]
    ELSE IF o.ty \in {"list", "tuple"}
    THEN VSeq([i \in 1..Len(o.kids) |-> RoundFloatsAt(o.kids[i], precision)])
    ELSE o

RoundFloats(o) == RoundFloatsAt(o, JSON_FLOAT_PRECISION)

\* The decimal text of a float (repr of a Python float that has few decimals).
RECURSIVE FracDigits(_, _)
FracDigits(f, k) ==
    IF k = 0 THEN <<>>
    ELSE <<ToString(f \div Pow10(k - 1))>> \o FracDigits(f % Pow10(k - 1), k - 1)

RECURSIVE StripZeros(_)
StripZeros(ds) ==
    IF Len(ds) > 1 /\ ds[Len(ds)] = "0" THEN StripZeros(SubSeq(ds, 1, Len(ds) - 1)) ELSE ds

FloatText(n) ==
    <<ToString(n \div Pow10(FloatDigits)), ".">>
        \o StripZeros(FracDigits(n % Pow10(FloatDigits), FloatDigits))

\* json.dumps with its default separators: the text, as a sequence of symbols, of a
\* float, int, bool, None, str, dict with str keys, list or tuple.
RECURSIVE JsonText(_), JsonItems(_, _), JsonElements(_, _)
JsonText(o) ==
    IF o.ty = "float" THEN FloatText(o.n)
    ELSE IF o.ty = "int" THEN <<ToString(o.n)>>
    ELSE IF o.ty = "bool" THEN <<IF o.n = 1 THEN "true" ELSE "false">>
    ELSE IF o.ty = "none" THEN <<"null">>
    ELSE IF o.ty = "str" THEN <<"\"">> \o o.s \o <<"\"">>
    ELSE IF o.ty = "dict" THEN <<"{">> \o JsonItems(o, 1) \o <<"}">>
    ELSE <<"[">> \o JsonElements(o.kids, 1) \o <<"]">>

JsonItems(o, i) ==
    IF i > Len(o.kids) THEN <<>>
    ELSE (IF i > 1 THEN <<",", " ">> ELSE <<>>)
            \o <<"\"", o.s[i], "\"", ":", " ">> \o JsonText(o.kids[i]) \o JsonItems(o, i + 1)

JsonElements(kids, i) ==
    IF i > Len(kids) THEN <<>>
    ELSE (IF i > 1 THEN <<",", " ">> ELSE <<>>)
            \o JsonText(kids[i]) \o JsonElements(kids, i + 1)

JsonDumps(o) == VStr(JsonText(o))

\* Python ==: numbers compare by value across int and float, everything else by
\* type and content.
IsNumber(v) == v.ty \in {"int", "float", "bool"}

NumUnits(v) == IF v.ty = "float" THEN v.n ELSE v.n * Pow10(FloatDigits)

PyEq(a, b) == IF IsNumber(a) /\ IsNumber(b) THEN NumUnits(a) = NumUnits(b) ELSE a = b

(***************************************************************************)
(* The publish pipeline, Service.publish and Service.publish_json.        *)
(***************************************************************************)
\* Service.data_topic_prefix
data_topic_prefix == <<"p", "/">>

\* The relative (or absolute) topics the model publishes to.
Exts == {<<"t">>}

\* A publish that leaves the prefix out.
AbsTopicBare(ext, global_) == ext

\* Service.publish: `topic = (self.data_topic_prefix + ext) if not global_ else ext`
AbsTopic(ext, global_) == IF global_ THEN ext ELSE data_topic_prefix \o ext

\* The (ext, global_) pairs the model publishes with.
Targets == {[ext |-> e, global_ |-> FALSE] : e \in Exts}

\* The (ext, global_) pairs of the calls that try the options of publish.
OptionTargets == {[ext |-> e, global_ |-> g] : e \in Exts, g \in BOOLEAN}

\* The (retain, qos) pairs of these calls: the defaults, and retained with qos 1.
PublishOptions == {[retain |-> FALSE, qos |-> QOS_MAX_ONCE], [retain |-> TRUE, qos |-> 1]}

\* Service.willtopic, the liveness topic
willtopic == data_topic_prefix \o <<"online">>

\* The declared loops of the service of the end-to-end scenario: what each task passes
\* to publish (publish_json for the dict).
SenderLoops ==
    { [ext |-> <<"string">>, message |-> VStr(<<"normal">>)],
      [ext |-> <<"json">>, message |-> VDict("some_float", Dec(12333336, 7))] }

(***************************************************************************)
(* Home Assistant devices and entities, src/miqro/ha_sensors.py: what the *)
(* constructors are given and what __post_init__ makes of it.             *)
(***************************************************************************)
\* Service.SERVICE_NAME of the service of the model
SERVICE_NAME == <<"s">>

\* None, in a field that holds a str or None
Null == <<"None">>

\* The symbols of the model that are outside [A-Za-z0-9_-].
Unsafe == {" ", "!", ".", "/"}

\* str.replace(old, new) for one symbol
Replace(s, old, new) == [i \in 1..Len(s) |-> IF s[i] = old THEN new ELSE s[i]]

\* str.strip(c)
RECURSIVE StripChar(_, _)
StripChar(s, c) ==
    IF Len(s) > 0 /\ s[1] = c THEN StripChar(Tail(s), c)
    ELSE IF Len(s) > 0 /\ s[Len(s)] = c THEN StripChar(SubSeq(s, 1, Len(s) - 1), c)
    ELSE s

\* clean_string(raw): re.sub(r"[^A-Za-z0-9_-]", "-", raw).strip("-")
clean_string(raw) == StripChar([i \in 1..Len(raw) |-> IF raw[i] \in Unsafe THEN "-" ELSE raw[i]], "-")

\* The name the service gives its device, and Device._unique_id.
DeviceNames == {<<"D", " ", "1", "!">>}

DeviceUniqueId(name) == SERVICE_NAME \o <<"_">> \o clean_string(name)

\* The entity classes of the model, by _component.  sensor, number and select are
\* subclasses of Entity, button and climate of EntityWithoutStateTopic.
HasStateTopic(kind) == kind \in {"sensor", "number", "select"}

\* The fields of an entity that the model keeps.  device is the _unique_id of the
\* device or Null, service says whether a service was given, command_callback whether a
\* callback was given; command_topic_postfix and command_callback stand for the
\* power_command pair of a ClimateController.  A field the class does not have is Null.
EntityArgs(kind, device, service, did, uid, state, callback, options, precision, unit) ==
    [kind |-> kind, device |-> device, service |-> service, name |-> <<"T", " ", "1">>,
     default_entity_id |-> did, unique_id |-> uid,
     state_topic_postfix |-> state,
     command_topic_postfix |-> IF kind = "sensor" THEN Null ELSE <<"c">>,
     command_callback |-> callback, options |-> options, precision |-> precision,
     temperature_unit |-> unit]

TheDevice == CHOOSE d \in {DeviceUniqueId(n) : n \in DeviceNames} : TRUE

\* An entity is given a device, a service, both or neither.
Owners == {[device |-> d, service |-> s] : d \in {Null, TheDevice}, s \in BOOLEAN}

OneOwner == {o \in Owners : (o.device = Null) = o.service}

\* What the constructors are called with.
EntityInputs ==
    {EntityArgs("sensor", o.device, o.service, did, uid, postfix, FALSE, Null, Null, Null) :
        o \in Owners, did \in {Null, <<"sensor", ".", "m">>}, uid \in {Null, <<"U">>},
        postfix \in {<<>>, <<"a", "/", "b">>}}
    \cup {EntityArgs("number", o.device, o.service, Null, Null, <<"a", "/", "b">>, callback, Null,
                     Null, Null) : o \in OneOwner, callback \in BOOLEAN}
    \cup {EntityArgs("button", o.device, o.service, ids[1], ids[2], Null, callback, Null, Null,
                     Null) :
            o \in OneOwner, callback \in BOOLEAN,
            ids \in {<<Null, Null>>, <<<<"button", ".", "m">>, <<"U">>>>}}
    \cup {EntityArgs("select", o.device, o.service, Null, Null, <<"a", "/", "b">>, callback, opts,
                     Null, Null) :
            o \in OneOwner, callback \in BOOLEAN, opts \in {<<>>, <<"x">>}}
    \cup {EntityArgs("climate", o.device, o.service, Null, Null, Null, callback, Null, pr, un) :
            o \in OneOwner, callback \in BOOLEAN, pr \in {Null, <<"0.5">>, <<"0.2">>},
            un \in {Null, <<"C">>, <<"K">>}}

\* The entities the service of the discovery scenario declares: a sensor, a number and a
\* button of its device, the last two with a callback, a button that is given the
\* unique id of the sensor, and a sensor without a device.
DeclaredEntities ==
    { EntityArgs("sensor", TheDevice, FALSE, Null, Null, <<"a", "/", "b">>, FALSE, Null, Null,
                 Null),
      EntityArgs("button", TheDevice, FALSE, Null,
                 TheDevice \o <<"_", "_", "sensor", "_">> \o clean_string(<<"T", " ", "1">>),
                 Null, FALSE, Null, Null, Null),
      EntityArgs("number", TheDevice, FALSE, Null, Null, <<"a", "/", "b">>, TRUE, Null, Null,
                 Null),
      EntityArgs("button", TheDevice, FALSE, Null, Null, Null, TRUE, Null, Null, Null),
      EntityArgs("sensor", Null, TRUE, Null, Null, <<"a", "/", "b">>, FALSE, Null, Null,
                 Null) }

\* A construction under way: the entity, the exception that ended it ("" for none), the
\* add_handler calls made, and how often the entity was put on its owner's list.
Constructing(e) == [e |-> e, raised |-> "", regs |-> <<>>, adds |-> 0]

Raise(c, exception) == IF c.raised = "" THEN [c EXCEPT !.raised = exception] ELSE c

\* EntityWithoutStateTopic.__post_init__
BasePostInit(c) ==
    IF c.raised # "" THEN c
    ELSE IF c.e.device = Null /\ ~c.e.service THEN Raise(c, "ValueError")
    ELSE IF c.e.device # Null /\ c.e.service THEN Raise(c, "ValueError")
    ELSE LET did == IF c.e.default_entity_id = Null
                    THEN <<c.e.kind, ".">> \o clean_string(c.e.name)
                    ELSE c.e.default_entity_id
             uid == IF c.e.unique_id # Null THEN c.e.unique_id
                    ELSE (IF c.e.device # Null THEN c.e.device ELSE clean_string(SERVICE_NAME))
                            \o <<"_", "_">> \o Replace(did, ".", "_")
             e == [c.e EXCEPT !.default_entity_id = did, !.unique_id = uid]
         IN  IF e.command_callback /\ e.device = Null
             THEN Raise([c EXCEPT !.e = e], "AttributeError")
             ELSE [c EXCEPT !.e = e,
                            !.regs = IF e.command_callback
                                     THEN Append(@, [topic |-> e.command_topic_postfix,
                                                     h |-> "command_callback"])
                                     ELSE @,
                            !.adds = @ + 1]

\* Entity.__post_init__: the one of the base class, the test of state_topic_postfix,
\* the default id from the state topic where there is none yet, the one of the base
\* class again.
EntityPostInit(c) ==
    LET c1 == BasePostInit(c)
        c2 == IF c1.e.state_topic_postfix = <<>> THEN Raise(c1, "ValueError") ELSE c1
        c3 == IF c2.raised = "" /\ c2.e.default_entity_id = Null
              THEN [c2 EXCEPT !.e.default_entity_id =
                                  <<c2.e.kind, ".">> \o Replace(c2.e.state_topic_postfix, "/", "_")]
              ELSE c2
    IN  BasePostInit(c3)

\* Select.__post_init__ after that of Entity: `if not self.options`
SelectPostInit(c) == IF c.e.options = <<>> THEN Raise(c, "ValueError") ELSE c

\* ClimateController.__post_init__ after that of the base class
ClimatePostInit(c) ==
    IF c.e.precision # Null /\ c.e.precision \notin {<<"0.1">>, <<"0.5">>, <<"1.0">>}
    THEN Raise(c, "ValueError")
    ELSE IF c.e.temperature_unit # Null /\ c.e.temperature_unit \notin {<<"C">>, <<"F">>}
    THEN Raise(c, "ValueError")
    ELSE c

\* The __post_init__ of the class of the entity.
PostInit(e) ==
    IF e.kind = "select" THEN SelectPostInit(EntityPostInit(Constructing(e)))
    ELSE IF HasStateTopic(e.kind) THEN EntityPostInit(Constructing(e))
    ELSE IF e.kind = "climate" THEN ClimatePostInit(BasePostInit(Constructing(e)))
    ELSE BasePostInit(Constructing(e))

\* The topics of the discovery documents, with the prefix the service gives.
DiscoveryPrefix == <<"h">>

DeviceDiscoveryTopic(unique_id) ==
    DiscoveryPrefix \o <<"/", "device", "/">> \o unique_id \o <<"/", "config">>

EntityDiscoveryTopic(e) ==
    DiscoveryPrefix \o <<"/", e.kind, "/">> \o e.unique_id \o <<"/", "config">>

DiscoveryTopics ==
    {DeviceDiscoveryTopic(TheDevice)}
        \cup {EntityDiscoveryTopic(PostInit(e).e) : e \in {x \in DeclaredEntities : x.device = Null}}

Topics ==
    {AbsTopic(x.ext, x.global_) : x \in Targets \cup OptionTargets} \cup {willtopic}
        \cup {AbsTopic(l.ext, FALSE) : l \in SenderLoops} \cup DiscoveryTopics

\* The messages the model publishes: True, None, a one- and a two-character str,
\* two floats that round to the same value, and a dict.
Messages ==
    { VBool(TRUE), VNone, VStr(<<"a">>), VStr(<<"a", "b">>),
      VFloat(Dec(123336, 5)), VFloat(Dec(123341, 5)), VDict("k", Dec(123336, 5)) }

\* The timedelta the model gives as only_if_changed, in clock units.
Durations == {2}

\* only_if_changed: False ("no"), True ("yes"), or a timedelta ("dur") of d clock units.
OnlyIfChanged == {"no", "yes", "dur"}

\* publish hands dicts and lists to publish_json, which calls publish again with the
\* JSON text, passing retain and only_if_changed on and leaving qos and global_ at
\* the defaults of publish_json.
IsStructured(m) == m.ty \in {"dict", "list"}

EffMessageAt(m, precision) ==
    IF m.ty = "bool" THEN VInt(m.n)
    ELSE IF m.ty = "none" THEN VStr(<<>>)
    ELSE IF IsStructured(m) THEN JsonDumps(RoundFloatsAt(m, precision))
    ELSE RoundFloatsAt(m, precision)

EffMessage(m) == EffMessageAt(m, JSON_FLOAT_PRECISION)

EffGlobal(m, global_) == IF IsStructured(m) THEN FALSE ELSE global_

EffQos(m, qos) == IF IsStructured(m) THEN QOS_MAX_ONCE ELSE qos

\* Cache entries: absent, a bare message (written by only_if_changed=True) or a
\* (message, time) pair (written by a timedelta).
Absent == [kind |-> "absent", v |-> VNone, t |-> 0]
Bare(m) == [kind |-> "bare", v |-> m, t |-> 0]
Pair(m, t) == [kind |-> "pair", v |-> m, t |-> t]

\* only_if_changed is True: last_message == message, with None for an absent key and a
\* tuple for a pair entry, neither of which equals a message.
SameAsCached(entry, message) == entry.kind = "bare" /\ PyEq(entry.v, message)

\* only_if_changed is a timedelta: `last_message, last_time = get(topic, (None, None))`
\* unpacks the entry.  A bare number cannot be unpacked, a bare str unpacks only when it
\* has two characters, and then last_time is a str, which cannot be added to a timedelta.
UnpackRaises(entry) ==
    entry.kind = "bare" /\ ~(entry.v.ty = "str" /\ Len(entry.v.s) = 2)

DurationRaises(entry, message) ==
    \/ UnpackRaises(entry)
    \/ entry.kind = "bare" /\ PyEq(VStr(<<entry.v.s[1]>>), message)

DurationSuppresses(entry, message, d, t) ==
    entry.kind = "pair" /\ PyEq(entry.v, message) /\ entry.t + d > t

PublishOutcome(entry, message, oic, d, t) ==
    IF oic = "yes" THEN (IF SameAsCached(entry, message) THEN "suppressed" ELSE "send")
    ELSE IF oic = "dur" THEN
        (IF DurationRaises(entry, message) THEN "raised"
         ELSE IF DurationSuppresses(entry, message, d, t) THEN "suppressed"
         ELSE "send")
    ELSE "send"

\* A publish that forgets the value it sent when only_if_changed is True.
CacheAfter_NoBareStore(entry, message, oic, d, t) ==
    IF PublishOutcome(entry, message, oic, d, t) = "send" /\ oic = "dur"
    THEN Pair(message, t) ELSE entry

\* Service.publish: last_key_values[topic] after the call.
CacheAfter(entry, message, oic, d, t) ==
    IF PublishOutcome(entry, message, oic, d, t) # "send" THEN entry
    ELSE IF oic = "yes" THEN Bare(message)
    ELSE IF oic = "dur" THEN Pair(message, t)
    ELSE entry

\* What a call was made with: publish or publish_json, in a service whose
\* JSON_FLOAT_PRECISION is precision.
Given(precision, ext, message, retain, qos, global_) ==
    [ext |-> ext, message |-> message, precision |-> precision, retain |-> retain,
     qos |-> qos, global_ |-> global_]

NoPublish ==
    [n |-> 0, topic |-> <<>>, message |-> VNone, oic |-> "no", d |-> 0, retain |-> FALSE,
     qos |-> 0, outcome |-> "none", prev |-> "other",
     given |-> Given(0, <<>>, VNone, FALSE, 0, FALSE)]

\* What the previous call did, when it was a call with the same topic, an equal
\* message and the same only_if_changed; "other" when it was not.
Repeats(topic, message, oic) ==
    IF pub.outcome # "none" /\ pub.topic = topic /\ PyEq(pub.message, message)
       /\ pub.oic = oic
    THEN pub.outcome ELSE "other"

\* A publish that keeps the value in the cache only when the transport took it.
PublishNormalised_StoreOnSuccess(given, ext, m, retain, qos, oic, d, global_, transport_ok) ==
    LET topic == AbsTopic(ext, global_)
        entry == last_key_values[topic]
        out == PublishOutcome(entry, m, oic, d, now)
        outcome == IF out = "send" THEN (IF transport_ok THEN "sent" ELSE "failed")
                   ELSE out
    IN  /\ last_key_values' = IF outcome = "failed" THEN last_key_values
                              ELSE [last_key_values EXCEPT
                                        ![topic] = CacheAfter(entry, m, oic, d, now)]
        /\ handed' = IF out = "send"
                     THEN [handed EXCEPT ![topic] = [has |-> TRUE, v |-> m]]
                     ELSE handed
        /\ pub' = [n |-> 1 - pub.n, topic |-> topic, message |-> m, oic |-> oic,
                   d |-> IF oic = "dur" THEN d ELSE 0,
                   retain |-> retain, qos |-> qos,
                   outcome |-> outcome, prev |-> Repeats(topic, m, oic),
                   given |-> given]

\* Service.publish from the only_if_changed test on, with the message m it has
\* normalised; transport_ok says whether mqtt_client.publish returns or raises (the
\* exception is logged).  pub keeps what the transport call was made with, and under
\* given what the caller asked for.
PublishNormalised(given, ext, m, retain, qos, oic, d, global_, transport_ok) ==
    LET topic == AbsTopic(ext, global_)
        entry == last_key_values[topic]
        out == PublishOutcome(entry, m, oic, d, now)
        outcome == IF out = "send" THEN (IF transport_ok THEN "sent" ELSE "failed")
                   ELSE out
    IN  /\ last_key_values' = [last_key_values EXCEPT ![topic] = CacheAfter(entry, m, oic, d, now)]
        /\ handed' = IF out = "send"
                     THEN [handed EXCEPT ![topic] = [has |-> TRUE, v |-> m]]
                     ELSE handed
        /\ pub' = [n |-> 1 - pub.n, topic |-> topic, message |-> m, oic |-> oic,
                   d |-> IF oic = "dur" THEN d ELSE 0,
                   retain |-> retain, qos |-> qos,
                   outcome |-> outcome, prev |-> Repeats(topic, m, oic),
                   given |-> given]

\* Service.publish(ext, message, retain, qos, only_if_changed, global_) in a service whose
\* JSON_FLOAT_PRECISION is precision.
PublishAt(precision, ext, message, retain, qos, oic, d, global_, transport_ok) ==
    \E m \in {EffMessageAt(message, precision)} :
        PublishNormalised(Given(precision, ext, message, retain, qos, global_), ext, m,
                          retain, EffQos(message, qos), oic, d,
                          EffGlobal(message, global_), transport_ok)

\* Service.publish_json(ext, message_json, retain, qos, only_if_changed, global_): publish
\* of the JSON text of the rounded document, a str that publish leaves as it is, with
\* retain, only_if_changed and global_ passed on and the default qos of publish.
PublishJsonAt(precision, ext, message_json, retain, qos, oic, d, global_, transport_ok) ==
    \E m \in {JsonDumps(RoundFloatsAt(message_json, precision))} :
        PublishNormalised(Given(precision, ext, message_json, retain, qos, global_), ext, m,
                          retain, QOS_MAX_ONCE, oic, d, global_, transport_ok)

\* Service.publish in a service with the JSON_FLOAT_PRECISION of Service.
Publish(ext, message, retain, qos, oic, d, global_, transport_ok) ==
    PublishAt(JSON_FLOAT_PRECISION, ext, message, retain, qos, oic, d, global_, transport_ok)

PublishCall ==
    \E x \in Targets, message \in Messages, oic \in OnlyIfChanged, d \in Durations,
       transport_ok \in BOOLEAN :
        /\ Publish(x.ext, message, FALSE, QOS_MAX_ONCE, oic, d, x.global_, transport_ok)
        /\ UNCHANGED <<now, routeVars, loopVars, netVars, compVars>>

\* One value of every type publish accepts: bool, None, int, float, str, dict, list.
TypedMessages ==
    { VBool(TRUE), VNone, VInt(2), VFloat(Dec(123336, 5)), VStr(<<"a">>),
      VDict("k", Dec(123336, 5)), VList(Dec(123336, 5)) }

\* publish called with every type of value, relative and absolute topics, and the
\* options retain and qos; only_if_changed False, and also True for a dict or list.
PublishWithOptions ==
    \E x \in OptionTargets, message \in TypedMessages, o \in PublishOptions,
       oic \in {"no", "yes"}, transport_ok \in BOOLEAN :
        /\ oic = "yes" => IsStructured(message)
        /\ Publish(x.ext, message, o.retain, o.qos, oic, 0, x.global_, transport_ok)
        /\ UNCHANGED <<now, routeVars, loopVars, netVars, compVars>>

\* The JSON_FLOAT_PRECISION of the services that publish documents: that of Service and
\* that of the service of test_publish_and_receive.
Precisions == {JSON_FLOAT_PRECISION, 1}

\* The document of test_publish_and_receive: {"some_float": 1.2333336}
SomeFloatDocument == VDict("some_float", Dec(12333336, 7))

\* {"a": [1.26, 2, "1.26", true, null, (9.9996,)], "b": {"c": 1.25}}
NestedDocument ==
    VMap(<<"a", "b">>,
         << VSeq(<<VFloat(Dec(126, 2)), VInt(2), VStr(<<"1", ".", "2", "6">>), VBool(TRUE),
                   VNone, VTuple(<<VFloat(Dec(99996, 4))>>)>>),
            VDict("c", Dec(125, 2)) >>)

\* The documents the model publishes: the two above, a list of a float and a dict, a
\* dict and a list without a float, and the empty dict.
Documents ==
    { SomeFloatDocument, NestedDocument,
      VSeq(<<VFloat(Dec(5, 1)), VDict("k", Dec(123341, 5))>>),
      VMap(<<"i", "s">>, <<VInt(1), VStr(<<"a">>)>>),
      VSeq(<<VBool(FALSE), VNone>>),
      VMap(<<>>, <<>>) }

\* The structured path: publish_json with a document, or publish with it.
PublishDocument ==
    \E precision \in Precisions, document \in Documents, direct \in BOOLEAN,
       oic \in {"no", "yes"}, transport_ok \in BOOLEAN :
        /\ IF direct
           THEN PublishJsonAt(precision, <<"json">>, document, FALSE, QOS_MAX_ONCE, oic, 0,
                              FALSE, transport_ok)
           ELSE PublishAt(precision, <<"json">>, document, FALSE, QOS_MAX_ONCE, oic, 0,
                           FALSE, transport_ok)
        /\ UNCHANGED <<now, routeVars, loopVars, netVars, compVars>>

\* Time passes.
Tick ==
    /\ now < MaxTime
    /\ now' = now + 1
    /\ UNCHANGED <<pubVars, routeVars, loopVars, netVars, compVars>>

(***************************************************************************)
(* The dispatch table and the router: add_handler, add_global_handler,    *)
(* the connection callbacks and _on_message.                              *)
(***************************************************************************)
MaxAdds == 1

\* The handlers declared on the service class with @handle and @handle_global.
CLASS_MQTT_HANDLERS == <<[topic |-> <<"a">>, h |-> "h1"]>>

CLASS_MQTT_GLOBAL_HANDLERS == <<>>

\* What add_handler and add_global_handler are called with.  h1 is the handler the
\* class declares and returns normally; h2 is added at run time and may raise.
AddedHandlers == {"h2"}

LocalPatterns == {<<"a">>, <<"a", "/", "#">>, <<"enabled">>}

GlobalPatterns == {<<"p", "/", "#">>}

\* The inbound messages: topics and raw payloads (" " is whitespace).
InTopics ==
    { data_topic_prefix \o <<"a">>, data_topic_prefix \o <<"a", "/", "b">>,
      data_topic_prefix \o <<"a", "/", "b", "/", "c">>,
      data_topic_prefix \o <<"enabled">>, <<"g">> }

Payloads == {<<"1">>, <<" ", "0">>}

\* Service._all_handlers: the global registrations, then the local ones with the
\* prefix applied.
AllHandlers(globals, locals) ==
    globals \o [i \in 1..Len(locals) |->
                    [topic |-> data_topic_prefix \o locals[i].topic, h |-> locals[i].h]]

\* str.strip() of the decoded payload
RECURSIVE LStrip(_)
LStrip(s) == IF Len(s) > 0 /\ s[1] = " " THEN LStrip(Tail(s)) ELSE s

RECURSIVE RStrip(_)
RStrip(s) ==
    IF Len(s) > 0 /\ s[Len(s)] = " " THEN RStrip(SubSeq(s, 1, Len(s) - 1)) ELSE s

Strip(s) == RStrip(LStrip(s))

\* "#" in topic, topic[:-1], msg.topic.startswith(prefix), msg.topic[len(prefix):]
HasHash(topic) == \E i \in 1..Len(topic) : topic[i] = "#"

ButLast(topic) == SubSeq(topic, 1, Len(topic) - 1)

StartsWith(s, prefix) == Len(prefix) <= Len(s) /\ SubSeq(s, 1, Len(prefix)) = prefix

After(s, prefix) == SubSeq(s, Len(prefix) + 1, Len(s))


\* The matching of an MQTT broker, where a/# also matches its parent topic a.
MatchesParent(topic, msg_topic) ==
    IF HasHash(topic)
    THEN StartsWith(msg_topic, ButLast(topic)) \/ msg_topic = ButLast(ButLast(topic))
    ELSE topic = msg_topic

Matches(topic, msg_topic) ==
    IF HasHash(topic) THEN StartsWith(msg_topic, ButLast(topic)) ELSE topic = msg_topic

\* The call _on_message makes for a matching registration: handler(self, payload,
\* suffix) for a wildcard, handler(self, payload) otherwise.
HandlerCall(reg, msg_topic) ==
    [h |-> reg.h, wild |-> HasHash(reg.topic),
     suffix |-> IF HasHash(reg.topic) THEN After(msg_topic, ButLast(reg.topic)) ELSE <<>>]

\* The registration ("enabled", self._on_enable) holds a bound method, and
\* _on_message calls every handler with the service as an extra first argument:
\* _on_enable(self, payload) is given one argument too many and the call raises
\* TypeError before the body runs.  The declared handlers are plain functions.
CallRaises(h, raisers) == h = "_on_enable" \/ h \in raisers

\* The for loop of _on_message from registration k on: the calls it makes, and whether
\* a handler raised (the exception leaves _on_message, nothing catches it).
RECURSIVE Dispatch(_, _, _, _)
Dispatch(regs, k, msg_topic, raisers) ==
    IF k > Len(regs) THEN [calls |-> <<>>, raised |-> FALSE]
    ELSE IF ~Matches(regs[k].topic, msg_topic) THEN Dispatch(regs, k + 1, msg_topic, raisers)
    ELSE IF CallRaises(regs[k].h, raisers)
         THEN [calls |-> <<HandlerCall(regs[k], msg_topic)>>, raised |-> TRUE]
         ELSE LET rest == Dispatch(regs, k + 1, msg_topic, raisers)
              IN  [calls |-> <<HandlerCall(regs[k], msg_topic)>> \o rest.calls,
                   raised |-> rest.raised]

\* Service._on_enable
OnEnable(payload) == payload = <<"1">>

NoMessage ==
    [n |-> 0, topic |-> <<>>, payload |-> <<>>, calls |-> <<>>, raised |-> FALSE,
     handled |-> FALSE, catchall |-> FALSE, returned |-> FALSE, error |-> FALSE]


\* A router that hands every message to the catch-all.
CatchAllAlways(raised, handled) == ~raised

\* Service._on_message after the for loop: `if handled: return`, then
\* `if self.handle_message(msg.topic, payload): return`.  A handler that raised has
\* left _on_message before this point.
CatchAllCalled(raised, handled) == ~raised /\ ~handled

\* Service._on_message(msg); raisers are the user handlers that raise on this message,
\* catchall is what the overridable handle_message returns.
OnMessage(msg_topic, raw_payload, raisers, catchall) ==
    \E d \in {Dispatch(AllHandlers(mqtt_global_handlers, mqtt_handlers), 1, msg_topic, raisers)} :
    LET payload == Strip(raw_payload)
        done == IF d.raised THEN SubSeq(d.calls, 1, Len(d.calls) - 1) ELSE d.calls
        handled == Len(done) > 0
        called == CatchAllCalled(d.raised, handled)
    IN  /\ enabled' = IF \E i \in 1..Len(done) : done[i].h = "_on_enable"
                      THEN OnEnable(payload) ELSE enabled
        /\ rt' = [n |-> 1 - rt.n, topic |-> msg_topic, payload |-> payload,
                  calls |-> d.calls, raised |-> d.raised, handled |-> handled,
                  catchall |-> called, returned |-> called /\ catchall,
                  error |-> called /\ ~catchall]
        /\ UNCHANGED <<mqtt_handlers, mqtt_global_handlers, is_connected, subscribed,
                       conn, adding, cb>>

\* The transport thread runs one callback at a time.
TransportIdle == conn.pc = "idle"

Message ==
    \E msg_topic \in InTopics, raw_payload \in Payloads, raisers \in SUBSET AddedHandlers,
       catchall \in BOOLEAN :
        /\ TransportIdle
        /\ OnMessage(msg_topic, raw_payload, raisers, catchall)
        /\ UNCHANGED <<now, pubVars, loopVars, netVars, compVars>>

NoConnect == [pc |-> "idle", part |-> "", k |-> 0]

NoAdd == [pc |-> "idle", topic |-> <<>>]

NoCallback == [n |-> 0, op |-> "none", rc |-> 0]

\* add_handler and add_global_handler run on the thread that registers (a loop task or
\* a user thread), the callbacks on the transport thread; one registration is in
\* progress at a time.
AddAllowed ==
    /\ adding.pc = "idle"
    /\ Len(mqtt_handlers) + Len(mqtt_global_handlers)
           < Len(CLASS_MQTT_HANDLERS) + 1 + Len(CLASS_MQTT_GLOBAL_HANDLERS) + MaxAdds

\* Service.add_handler(topic, handler): the append.
AddHandler ==
    \E topic \in LocalPatterns, h \in AddedHandlers :
        /\ AddAllowed
        /\ mqtt_handlers' = Append(mqtt_handlers, [topic |-> topic, h |-> h])
        /\ adding' = [pc |-> "check", topic |-> data_topic_prefix \o topic]
        /\ UNCHANGED <<now, pubVars, loopVars, netVars, compVars, mqtt_global_handlers, is_connected,
                       subscribed, enabled, rt, conn, cb>>

\* Service.add_global_handler(topic, handler): the append.
AddGlobalHandler ==
    \E topic \in GlobalPatterns, h \in AddedHandlers :
        /\ AddAllowed
        /\ mqtt_global_handlers' = Append(mqtt_global_handlers, [topic |-> topic, h |-> h])
        /\ adding' = [pc |-> "check", topic |-> topic]
        /\ UNCHANGED <<now, pubVars, loopVars, netVars, compVars, mqtt_handlers, is_connected, subscribed,
                       enabled, rt, conn, cb>>


\* A registration that never subscribes.
SubscribeOnAddNever(flag) == FALSE

\* add_handler / add_global_handler: `if self.is_connected:`
SubscribeOnAdd(flag) == flag

AddCheck ==
    /\ adding.pc = "check"
    /\ adding' = IF SubscribeOnAdd(is_connected) THEN [adding EXCEPT !.pc = "subscribe"] ELSE NoAdd
    /\ UNCHANGED <<now, pubVars, loopVars, netVars, compVars, mqtt_handlers, mqtt_global_handlers,
                   is_connected, subscribed, enabled, rt, conn, cb>>

\* add_handler / add_global_handler: `self.mqtt_client.subscribe(...)`
AddSubscribe ==
    /\ adding.pc = "subscribe"
    /\ subscribed' = subscribed \cup {adding.topic}
    /\ adding' = NoAdd
    /\ UNCHANGED <<now, pubVars, loopVars, netVars, compVars, mqtt_handlers, mqtt_global_handlers,
                   is_connected, enabled, rt, conn, cb>>


\* A connect callback that takes every result code for a success.
ConnectAcceptedAny(rc) == TRUE

\* Service._on_connect: `if rc != 0: ... return`
ConnectAccepted(rc) == rc = 0


\* A connect callback that sets the flag when the subscribe loop has ended.
ConnectedAfterSubscribes(step, flag) == IF step = "subscribed" THEN TRUE ELSE flag

\* Service._on_connect: `self.is_connected = True` is the statement before the subscribe
\* loop; step names the point _on_connect has reached.
ConnectedAfter(step, flag) == IF step = "entry" THEN TRUE ELSE flag

\* Service._on_connect(client, userdata, flags, rc) up to the subscribe loop.  The broker
\* holds no subscription of a new connection.
OnConnect ==
    \E rc \in {0, 1} :
        /\ TransportIdle
        /\ cb' = [n |-> 1 - cb.n, op |-> "connect", rc |-> rc]
        /\ IF ConnectAccepted(rc)
           THEN /\ is_connected' = ConnectedAfter("entry", is_connected)
                /\ subscribed' = {}
                /\ conn' = [pc |-> "subscribe", part |-> "global", k |-> 1]
           ELSE UNCHANGED <<is_connected, subscribed, conn>>
        /\ UNCHANGED <<now, pubVars, loopVars, netVars, compVars, mqtt_handlers, mqtt_global_handlers,
                       enabled, rt, adding>>

\* One step of `for topic, _ in self._all_handlers(): client.subscribe(topic)`.  The
\* generator walks the live lists, the global one first: a registration appended to
\* the list it is walking is still reached.
ConnectSubscribe ==
    /\ conn.pc = "subscribe"
    /\ LET list == IF conn.part = "global" THEN mqtt_global_handlers ELSE mqtt_handlers
           topic == IF conn.part = "global" THEN list[conn.k].topic
                    ELSE data_topic_prefix \o list[conn.k].topic
       IN  IF conn.k <= Len(list)
           THEN /\ subscribed' = subscribed \cup {topic}
                /\ conn' = [conn EXCEPT !.k = @ + 1]
                /\ UNCHANGED is_connected
           ELSE IF conn.part = "global"
           THEN /\ conn' = [conn EXCEPT !.part = "local", !.k = 1]
                /\ UNCHANGED <<subscribed, is_connected>>
           ELSE /\ conn' = [conn EXCEPT !.pc = "publish"]
                /\ is_connected' = ConnectedAfter("subscribed", is_connected)
                /\ UNCHANGED subscribed
    /\ UNCHANGED <<now, pubVars, loopVars, netVars, compVars, mqtt_handlers, mqtt_global_handlers, enabled,
                   rt, adding, cb>>

\* Service._on_connect: `self.mqtt_client.publish(self.willtopic, "1", retain=True)`
ConnectPublish ==
    /\ conn.pc = "publish"
    /\ handed' = [handed EXCEPT ![willtopic] = [has |-> TRUE, v |-> VStr(<<"1">>)]]
    /\ conn' = NoConnect
    /\ UNCHANGED <<now, last_key_values, pub, loopVars, netVars, compVars, mqtt_handlers,
                   mqtt_global_handlers, is_connected, subscribed, enabled, rt, adding, cb>>

\* Service._on_disconnect(client, userdata, rc)
OnDisconnect ==
    /\ TransportIdle
    /\ is_connected' = FALSE
    /\ cb' = [n |-> 1 - cb.n, op |-> "disconnect", rc |-> 0]
    /\ UNCHANGED <<now, pubVars, loopVars, netVars, compVars, mqtt_handlers, mqtt_global_handlers, subscribed,
                   enabled, rt, conn, adding>>

(***************************************************************************)
(* The scheduler: Loop, Service._loop_step and Service.run.  One clock    *)
(* unit is 0.1 s.                                                          *)
(***************************************************************************)
MaxRunTime == 5

MaxExt == 1

\* Python's None, for a next_call that is unset.
None == 0 - 1

\* Service.MAX_LOOP_INTERVAL, 0.2 s
MAX_LOOP_INTERVAL == 2

\* Service.MQTT_ONLINE_UPDATE_INTERVAL, the period of the heartbeat loop.  It is a class
\* attribute (180 s unless a service class sets it); the modelled service sets it to
\* 0.4 s, so that the heartbeat fires more than once within MaxRunTime.
MQTT_ONLINE_UPDATE_INTERVAL == 4

\* The periods of the loops the service class declares with @loop: one loop of 0.3 s.
PREPARED_LOOPS == <<3>>

\* Service._create_loops: the heartbeat loop first, then the declared loops.
Intervals == <<MQTT_ONLINE_UPDATE_INTERVAL>> \o PREPARED_LOOPS

Loops == 1..Len(Intervals)

\* A service that registers its heartbeat loop last.
HeartbeatLast == Len(Intervals)

\* The heartbeat loop is the first that _create_loops adds.
Heartbeat == 1

Min(a, b) == IF a <= b THEN a ELSE b

Max(a, b) == IF a >= b THEN a ELSE b

\* A due test that does not look at whether next_call is set.
DueIgnoringNone(nc, t) == t >= nc

\* Loop.run_if_needed: `self.next_call and now >= self.next_call`
Due(nc, t) == nc # None /\ t >= nc

\* A stop test that takes every falsy return value for the stop signal.
StopSignalFalsy(ret) == ret \in {"False", "0", "None"}

\* Loop.run_if_needed: `self.fn(instance) is not False` fails for False alone.
StopSignal(ret) == ret = "False"

\* A reschedule counted from the time at which the task returned.
NextCallFromReturn(t0, t1, interval) == t1 + interval

\* Loop.run_if_needed: next_call after a call that did not return False; t0 is the time
\* read on entry, t1 the time at which the task returned.
NextCall(t0, t1, interval) == t0 + interval

\* Loop.get_remaining
GetRemaining(nc, t) == IF nc = None THEN None ELSE nc - t

\* Service._loop_step: the time handed to sleep()
SleepTime(earliest, t) == Max(0, earliest - t)

NoEvent == [op |-> "none", loop |-> 0, ret |-> "", amount |-> 0, flag |-> FALSE]

Event(op, i) == [NoEvent EXCEPT !.op = op, !.loop = i]

Unsched == UNCHANGED <<pubVars, routeVars, netVars, compVars>>

KeepsWindow == UNCHANGED since_reset

NoReturns == [returned |-> 0, signalled |-> 0]

\* Service.run: `while not self.stop`, and the first line of _loop_step.
LoopStepBegin ==
    /\ sched.pc = "check"
    /\ ~stop
    /\ sched' = [sched EXCEPT !.pc = "examine", !.i = 1,
                              !.earliest = now + MAX_LOOP_INTERVAL, !.fired = <<>>]
    /\ ev' = Event("tick", 0)
    /\ UNCHANGED <<now, next_call, stat_call_count, stat_cumulative_duration, stop,
                   stopped, ext_calls>>
    /\ Unsched /\ KeepsWindow

\* Service.run: the stop flag is set, run returns.
RunExit ==
    /\ sched.pc = "check"
    /\ stop
    /\ sched' = [sched EXCEPT !.pc = "exited"]
    /\ ev' = Event("exit", 0)
    /\ UNCHANGED <<now, next_call, stat_call_count, stat_cumulative_duration, stop,
                   stopped, ext_calls>>
    /\ Unsched /\ KeepsWindow

\* Loop.run_if_needed on a loop that is not due: it returns None.
Skip ==
    /\ sched.pc = "examine"
    /\ sched.i \in Loops
    /\ ~Due(next_call[sched.i], now)
    /\ sched' = [sched EXCEPT !.i = sched.i + 1, !.t0 = now]
    /\ ev' = Event("skip", sched.i)
    /\ UNCHANGED <<now, next_call, stat_call_count, stat_cumulative_duration, stop,
                   stopped, ext_calls>>
    /\ Unsched /\ KeepsWindow

\* Loop.run_if_needed on a due loop: self.fn(instance) is called.
Invoke ==
    /\ sched.pc = "examine"
    /\ sched.i \in Loops
    /\ Due(next_call[sched.i], now)
    /\ sched' = [sched EXCEPT !.pc = "running", !.t0 = now,
                              !.body = IF sched.i = Heartbeat THEN "pending" ELSE "user",
                              !.fired = Append(@, sched.i)]
    /\ ev' = [Event("invoke", sched.i) EXCEPT !.flag = stopped[sched.i]]
    /\ UNCHANGED <<now, next_call, stat_call_count, stat_cumulative_duration, stop,
                   stopped, ext_calls>>
    /\ Unsched /\ KeepsWindow

\* A reset that keeps what was counted.
StatResetKeeps(count) == count

\* Loop.stat_reset: both statistics go back to zero.
StatReset(count) == 0

\* Service._update_online_status, the task of the heartbeat loop: it publishes the
\* retained marker and resets the statistics of every loop.
HeartbeatBody ==
    /\ sched.pc = "running"
    /\ sched.body = "pending"
    /\ \E transport_ok \in BOOLEAN :
           Publish(willtopic, VStr(<<"1">>), TRUE, QOS_MAX_ONCE, "no", 0, TRUE, transport_ok)
    /\ stat_call_count' = [i \in Loops |-> StatReset(stat_call_count[i])]
    /\ stat_cumulative_duration' = [i \in Loops |-> StatReset(stat_cumulative_duration[i])]
    /\ since_reset' = [i \in Loops |-> NoReturns]
    /\ sched' = [sched EXCEPT !.body = "done"]
    /\ ev' = Event("heartbeat", sched.i)
    /\ UNCHANGED <<now, next_call, stop, stopped, ext_calls, routeVars, netVars, compVars>>

\* Loop.stop
Stop(i) ==
    /\ next_call' = [next_call EXCEPT ![i] = None]
    /\ stopped' = [stopped EXCEPT ![i] = TRUE]

\* Loop.start(delayed), which Loop.restart(delayed) calls
Start(i, delayed) ==
    /\ next_call' = [next_call EXCEPT ![i] = IF delayed THEN now + Intervals[i] ELSE now]
    /\ stopped' = [stopped EXCEPT ![i] = FALSE]

\* The body of a declared task calls stop() on its own loop.
TaskStop ==
    /\ sched.pc = "running"
    /\ sched.body = "user"
    /\ Stop(sched.i)
    /\ ev' = Event("stop", sched.i)
    /\ UNCHANGED <<now, stat_call_count, stat_cumulative_duration, stop, sched, ext_calls>>
    /\ Unsched /\ KeepsWindow

\* `service.stop = True`, set by a task, a handler or another thread.
SetStop ==
    /\ ~stop
    /\ stop' = TRUE
    /\ ev' = Event("set_stop", 0)
    /\ UNCHANGED <<now, next_call, stat_call_count, stat_cumulative_duration, sched,
                   stopped, ext_calls>>
    /\ Unsched /\ KeepsWindow

\* Time passes while a task runs and while the run loop sleeps.
Elapse ==
    /\ \/ sched.pc = "running"
       \/ sched.pc = "sleeping" /\ now < sched.wake
    /\ now < MaxRunTime
    /\ now' = now + 1
    /\ UNCHANGED loopVars
    /\ Unsched

\* What a task returns: nothing (None), a falsy value that is not False ("0"), False;
\* or it raises.
Returns == {"None", "0", "False", "raise"}

\* The task returns to Loop.run_if_needed, or raises: an exception leaves
\* run_if_needed, _loop_step and run, nothing catches it.
Return ==
    \E ret \in Returns :
        LET i == sched.i
            nc == NextCall(sched.t0, now, Intervals[i])
        IN
        /\ sched.pc = "running"
        /\ sched.body \in {"user", "done"}
        /\ sched.body = "done" => ret = "None"
        /\ ev' = [Event("return", i) EXCEPT !.ret = ret]
        /\ IF ret = "raise" THEN
               /\ sched' = [sched EXCEPT !.pc = "crashed"]
               /\ UNCHANGED <<next_call, stopped, stat_call_count, stat_cumulative_duration,
                              since_reset>>
           ELSE IF StopSignal(ret) THEN
               /\ Stop(i)
               /\ sched' = [sched EXCEPT !.pc = "examine", !.i = i + 1]
               /\ since_reset' = [since_reset EXCEPT ![i].returned = @ + 1,
                                                      ![i].signalled = @ + 1]
               /\ UNCHANGED <<stat_call_count, stat_cumulative_duration>>
           ELSE
               /\ since_reset' = [since_reset EXCEPT ![i].returned = @ + 1]
               /\ next_call' = [next_call EXCEPT ![i] = nc]
               /\ stat_call_count' = [stat_call_count EXCEPT ![i] = @ + 1]
               /\ stat_cumulative_duration' =
                      [stat_cumulative_duration EXCEPT ![i] = @ + (now - sched.t0)]
               /\ sched' = [sched EXCEPT !.pc = "examine", !.i = i + 1,
                                         !.earliest = Min(sched.earliest, nc)]
               /\ UNCHANGED stopped
        /\ UNCHANGED <<now, stop, ext_calls>>
        /\ Unsched

\* Service._loop_step: after the last loop, sleep until earliest_next_call.
GoSleep ==
    /\ sched.pc = "examine"
    /\ sched.i \notin Loops
    /\ sched' = [sched EXCEPT !.pc = "sleeping",
                              !.wake = now + SleepTime(sched.earliest, now)]
    /\ ev' = [Event("sleep", 0) EXCEPT !.amount = SleepTime(sched.earliest, now)]
    /\ UNCHANGED <<now, next_call, stat_call_count, stat_cumulative_duration, stop,
                   stopped, ext_calls>>
    /\ Unsched /\ KeepsWindow

\* sleep() returns.
Wake ==
    /\ sched.pc = "sleeping"
    /\ now >= sched.wake
    /\ sched' = [sched EXCEPT !.pc = "check"]
    /\ ev' = Event("wake", 0)
    /\ UNCHANGED <<now, next_call, stat_call_count, stat_cumulative_duration, stop,
                   stopped, ext_calls>>
    /\ Unsched /\ KeepsWindow

\* A message handler on the transport thread (or any other thread) calls stop() on a
\* loop.
ExtStop ==
    \E i \in Loops :
        /\ ext_calls < MaxExt
        /\ ext_calls' = ext_calls + 1
        /\ Stop(i)
        /\ ev' = Event("stop", i)
        /\ UNCHANGED <<now, stat_call_count, stat_cumulative_duration, stop, sched>>
        /\ Unsched /\ KeepsWindow

\* ... or start() or restart().
ExtStart ==
    \E i \in Loops, delayed \in BOOLEAN :
        /\ ext_calls < MaxExt
        /\ ext_calls' = ext_calls + 1
        /\ Start(i, delayed)
        /\ ev' = Event("start", i)
        /\ UNCHANGED <<now, stat_call_count, stat_cumulative_duration, stop, sched>>
        /\ Unsched /\ KeepsWindow

(***************************************************************************)
(* The state after Service.__init__.                                      *)
(***************************************************************************)
(***************************************************************************)
(* End to end: the loops of a service publish, a broker delivers each     *)
(* published message once to every subscriber of its topic, and the       *)
(* transport thread of the same service receives.                         *)
(***************************************************************************)
MaxPublishes == 2

PublishIds == 1..MaxPublishes

\* The handlers the service of the scenario declares with @handle.
SenderHandlers ==
    << [topic |-> <<"string">>, h |-> "recv_string"],
       [topic |-> <<"json">>, h |-> "recv_json"] >>

NoEndToEnd ==
    [n |-> 0, connected |-> {}, settled |-> {}, seen |-> [id \in PublishIds |-> <<>>]]

\* The broker: a subscription filter matches a topic when they are equal, or when the
\* filter ends in /# and the topic is the filter's parent or below it.
BrokerMatches(filter, topic) ==
    \/ filter = topic
    \/ /\ HasHash(filter)
       /\ StartsWith(topic, ButLast(filter)) \/ topic = ButLast(ButLast(filter))

\* The service is a subscriber of the topic at the broker.
Subscriber(topic) == \E filter \in subscribed : BrokerMatches(filter, topic)

\* A loop task of the scenario runs on the thread of Service.run: it calls publish, and
\* the broker takes the message for this client when the client is a subscriber of
\* the topic.  e2e notes for a publish of "normal" to string whether the service was
\* connected, and whether in addition no connect callback was in progress.
LoopPublish ==
    \E task \in SenderLoops, transport_ok \in BOOLEAN :
        /\ e2e.n < MaxPublishes
        /\ Publish(task.ext, task.message, FALSE, QOS_MAX_ONCE, "no", 0, FALSE, transport_ok)
        /\ LET id == e2e.n + 1
               published == pub'.outcome = "sent"
               normal == published /\ task.ext = <<"string">>
           IN  /\ broker' = IF published /\ Subscriber(pub'.topic)
                            THEN Append(broker, [id |-> id, topic |-> pub'.topic,
                                                 payload |-> pub'.message.s])
                            ELSE broker
               /\ e2e' = [e2e EXCEPT
                            !.n = id,
                            !.connected = IF normal /\ is_connected THEN @ \cup {id} ELSE @,
                            !.settled = IF normal /\ is_connected /\ TransportIdle
                                        THEN @ \cup {id} ELSE @]
        /\ UNCHANGED <<now, routeVars, loopVars, compVars>>

\* The handler invocations of one _on_message call, the catch-all included.
Invocations(r) ==
    [k \in 1..Len(r.calls) |-> [h |-> r.calls[k].h, payload |-> r.payload]]
        \o (IF r.catchall THEN <<[h |-> "handle_message", payload |-> r.payload]>> ELSE <<>>)

\* The broker delivers its oldest message: the transport thread calls _on_message.
\* The handlers of the scenario return normally.
Deliver ==
    /\ TransportIdle
    /\ Len(broker) > 0
    /\ \E catchall \in BOOLEAN :
           OnMessage(Head(broker).topic, Head(broker).payload, {}, catchall)
    /\ broker' = Tail(broker)
    /\ e2e' = [e2e EXCEPT !.seen[Head(broker).id] = @ \o Invocations(rt')]
    /\ UNCHANGED <<now, pubVars, loopVars, compVars>>

(***************************************************************************)
(* The persisted store, State: a nested document with set_path, get_path. *)
(***************************************************************************)
MaxSets == 2

\* What set_path and get_path are called with: paths of keys, values, a default.
Paths == {<<"a">>, <<"b">>, <<"a", "b">>, <<"a", "a">>, <<"b", "a">>, <<"a", "b", "a">>}

StoreValues == {VInt(5), VStr(<<"a">>)}

Defaults == {VInt(0)}

\* `key in d` raises TypeError when d is a number, a bool or None.
InRaises(d) == d.ty \notin {"dict", "str"}

\* `key in d`: d has the key, when d is a dict; key is a substring, when d is a str.
KeyIn(key, d) == \E i \in 1..Len(d.s) : d.s[i] = key

\* d[key] with a str key is defined on a dict only; on a str it raises TypeError.
Item(d, key) == d.kids[CHOOSE i \in 1..Len(d.s) : d.s[i] = key]

\* d[key] = v on a dict
Put(d, key, v) ==
    IF KeyIn(key, d)
    THEN [d EXCEPT !.kids[CHOOSE i \in 1..Len(d.s) : d.s[i] = key] = v]
    ELSE [d EXCEPT !.s = Append(@, key), !.kids = Append(@, v)]

\* State.get_path(*keys, default) from the value d on: what it returns, or that it raises.
RECURSIVE GetPath(_, _, _)
GetPath(d, keys, default) ==
    IF keys = <<>> THEN [raised |-> FALSE, v |-> d]
    ELSE IF InRaises(d) THEN [raised |-> TRUE, v |-> VNone]
    ELSE IF ~KeyIn(Head(keys), d) THEN [raised |-> FALSE, v |-> default]
    ELSE IF d.ty # "dict" THEN [raised |-> TRUE, v |-> VNone]
    ELSE GetPath(Item(d, Head(keys)), Tail(keys), default)

\* State.set_path(*keys, value=value) from the value d on: d afterwards, and whether
\* the call raised.  The dicts it made on the way stay when it raises further down.
RECURSIVE SetPath(_, _, _)
SetPath(d, keys, value) ==
    IF Len(keys) = 1
    THEN IF d.ty = "dict" THEN [raised |-> FALSE, d |-> Put(d, keys[1], value)]
         ELSE [raised |-> TRUE, d |-> d]
    ELSE IF InRaises(d) \/ d.ty # "dict" THEN [raised |-> TRUE, d |-> d]
    ELSE LET d1 == IF KeyIn(Head(keys), d) THEN d ELSE Put(d, Head(keys), VMap(<<>>, <<>>))
             sub == SetPath(Item(d1, Head(keys)), Tail(keys), value)
         IN  [raised |-> sub.raised, d |-> Put(d1, Head(keys), sub.d)]

NoStoreCall ==
    [op |-> "none", keys |-> <<>>, default |-> VNone, raised |-> FALSE, result |-> VNone,
     sets |-> 0, set_keys |-> <<>>, set_value |-> VNone, set_raised |-> FALSE]

SetPathCall ==
    \E keys \in Paths, value \in StoreValues :
        /\ st.sets < MaxSets
        /\ \E r \in {SetPath(state_data, keys, value)} :
            /\ state_data' = r.d
            /\ st' = [NoStoreCall EXCEPT !.op = "set", !.sets = st.sets + 1,
                                         !.raised = r.raised, !.set_keys = keys,
                                         !.set_value = value, !.set_raised = r.raised]
        /\ UNCHANGED <<now, pubVars, routeVars, loopVars, netVars, haVars, lateVars>>

GetPathCall ==
    \E keys \in Paths, default \in Defaults :
        /\ \E r \in {GetPath(state_data, keys, default)} :
            st' = [st EXCEPT !.op = "get", !.keys = keys, !.default = default,
                             !.raised = r.raised, !.result = r.v]
        /\ UNCHANGED <<now, pubVars, routeVars, loopVars, netVars, haVars, lateVars, state_data>>

(***************************************************************************)
(* Home Assistant devices and entities: construction, the callbacks, and  *)
(* the discovery documents.                                               *)
(***************************************************************************)
MaxConstructions == 1

MaxEntities == 2

NoEntity == EntityArgs("none", Null, FALSE, Null, Null, Null, FALSE, Null, Null, Null)

NoConstruction ==
    [n |-> 0, op |-> "none", args |-> NoEntity, outcome |-> "none", entity |-> NoEntity,
     added |-> 0, made |-> 0, callbacks |-> 0]

\* The service keeps a list of its devices and a list of its entities without a device,
\* both empty at first.
InitRegistry == ha_devices = <<>> /\ ha_entities = <<>>

\* Device(service, name): __post_init__ puts the device on the list of the service and
\* sets _unique_id.
NewDevice ==
    \E name \in DeviceNames :
        /\ \A i \in 1..Len(ha_devices) : ha_devices[i].name # name
        /\ ha_devices' = Append(ha_devices, [name |-> name, unique_id |-> DeviceUniqueId(name)])
        /\ dev_entities' = Append(dev_entities, <<>>)
        /\ ha' = [ha EXCEPT !.n = 1 - @, !.op = "device"]
        /\ UNCHANGED <<now, pubVars, routeVars, loopVars, netVars, storeVars, lateVars, ha_entities>>

DeviceIndex(unique_id) == CHOOSE i \in 1..Len(ha_devices) : ha_devices[i].unique_id = unique_id

\* k times the entity e
Times(k, e) == [i \in 1..k |-> e]

\* The construction of an entity: the dataclass __init__ and then __post_init__, with the
\* add_handler calls it makes (appended registrations; a subscription when connected)
\* and the lists it puts the entity on.  The lists hold the entity itself, with the ids
\* it has in the end.
Construct(args) ==
    /\ args.device # Null => \E i \in 1..Len(ha_devices) : ha_devices[i].unique_id = args.device
    /\ \E c \in {PostInit(args)} :
        /\ mqtt_handlers' = mqtt_handlers \o c.regs
        /\ subscribed' = IF SubscribeOnAdd(is_connected)
                         THEN subscribed \cup {data_topic_prefix \o c.regs[i].topic : i \in 1..Len(c.regs)}
                         ELSE subscribed
        /\ dev_entities' = IF c.e.device # Null /\ c.adds > 0
                           THEN [dev_entities EXCEPT ![DeviceIndex(c.e.device)] = @ \o Times(c.adds, c.e)]
                           ELSE dev_entities
        /\ ha_entities' = IF c.e.device = Null THEN ha_entities \o Times(c.adds, c.e)
                          ELSE ha_entities
        /\ ha' = [n |-> 1 - ha.n, op |-> "entity", args |-> args,
                  outcome |-> IF c.raised = "" THEN "ok" ELSE c.raised,
                  entity |-> c.e, added |-> Len(c.regs), made |-> ha.made + 1,
                  callbacks |-> IF args.command_callback
                                   /\ PostInit([args EXCEPT !.command_callback = FALSE]).raised = ""
                                THEN ha.callbacks + 1 ELSE ha.callbacks]
    /\ UNCHANGED <<now, pubVars, loopVars, netVars, storeVars, lateVars, ha_devices,
                   mqtt_global_handlers, is_connected, enabled, rt, conn, adding, cb>>

\* An entity constructor called with any of the arguments of the model.
NewEntity ==
    \E args \in EntityInputs :
        /\ ha.made < MaxConstructions
        /\ Construct(args)

\* The service of the discovery scenario makes one of its entities.
DeclareEntity ==
    \E args \in DeclaredEntities :
        /\ ha.made < MaxEntities
        /\ Construct(args)

\* A message arrives on the command topic of the entities.
CommandMessage ==
    /\ TransportIdle
    /\ OnMessage(data_topic_prefix \o <<"c">>, <<"1">>, {}, FALSE)
    /\ UNCHANGED <<now, pubVars, loopVars, netVars, compVars>>

Field(present, key, value) == IF present THEN <<[k |-> key, v |-> value]>> ELSE <<>>

Dict(fields) == VMap([i \in 1..Len(fields) |-> fields[i].k], [i \in 1..Len(fields) |-> fields[i].v])

\* "".join(symbols): a str as a dict key
RECURSIVE Join(_)
Join(symbols) == IF symbols = <<>> THEN "" ELSE symbols[1] \o Join(Tail(symbols))

\* EntityWithoutStateTopic.get_discover_payload: the fields that are not None, without
\* device, service and the callbacks, then platform, then for every x_postfix field the
\* key x with the prefix of the service in front of the value.
EntityPayload(e) ==
    Dict(Field(TRUE, "name", VStr(e.name))
         \o Field(e.default_entity_id # Null, "default_entity_id", VStr(e.default_entity_id))
         \o Field(e.unique_id # Null, "unique_id", VStr(e.unique_id))
         \o Field(e.options # Null, "options",
                  VSeq([i \in 1..Len(e.options) |-> VStr(<<e.options[i]>>)]))
         \o Field(e.precision # Null, "precision", VStr(e.precision))
         \o Field(e.temperature_unit # Null, "temperature_unit", VStr(e.temperature_unit))
         \o Field(TRUE, "platform", VStr(<<e.kind>>))
         \o Field(e.state_topic_postfix # Null, "state_topic",
                  VStr(data_topic_prefix \o e.state_topic_postfix))
         \o Field(e.command_topic_postfix # Null, "command_topic",
                  VStr(data_topic_prefix \o e.command_topic_postfix)))

\* A components dict that gets one more item for every entry of the list.
RECURSIVE ComponentsListed(_, _)
ComponentsListed(components, entities) ==
    IF entities = <<>> THEN components
    ELSE ComponentsListed([components EXCEPT !.s = Append(@, Join(Head(entities).unique_id)),
                                             !.kids = Append(@, EntityPayload(Head(entities)))],
                          Tail(entities))

\* Device.publish_discovery: `for entity in self.__entities:
\*     payload["components"][entity.unique_id] = entity.get_discover_payload()`
RECURSIVE Components(_, _)
Components(components, entities) ==
    IF entities = <<>> THEN components
    ELSE Components(Put(components, Join(Head(entities).unique_id), EntityPayload(Head(entities))),
                    Tail(entities))

\* Device.publish_discovery: the payload for device i of the service.
DeviceDocument(i) ==
    Dict(<< [k |-> "device",
             v |-> Dict(<< [k |-> "name", v |-> VStr(ha_devices[i].name)],
                           [k |-> "identifiers", v |-> VSeq(<<VStr(ha_devices[i].unique_id)>>)] >>)],
            [k |-> "origin",
             v |-> Dict(<<[k |-> "name", v |-> VStr(<<"MIQRO service ">> \o SERVICE_NAME)]>>)],
            [k |-> "availability",
             v |-> VSeq(<<Dict(<< [k |-> "topic", v |-> VStr(willtopic)],
                                  [k |-> "payload_available", v |-> VStr(<<"1">>)],
                                  [k |-> "payload_not_available", v |-> VStr(<<"0">>)] >>)>>)],
            [k |-> "components", v |-> Components(VMap(<<>>, <<>>), dev_entities[i])] >>)

\* Device.publish_discovery(prefix)
PublishDeviceDiscovery ==
    \E i \in 1..Len(ha_devices), transport_ok \in BOOLEAN :
        /\ PublishJsonAt(JSON_FLOAT_PRECISION, DeviceDiscoveryTopic(ha_devices[i].unique_id),
                         DeviceDocument(i), TRUE, 1, "no", 0, TRUE, transport_ok)
        /\ ha' = [ha EXCEPT !.n = 1 - @, !.op = "device_discovery"]
        /\ UNCHANGED <<now, routeVars, loopVars, netVars, storeVars, lateVars, ha_devices, dev_entities,
                       ha_entities>>

\* EntityWithoutStateTopic.publish_discovery(prefix) of an entity without a device
PublishEntityDiscovery ==
    \E k \in 1..Len(ha_entities), transport_ok \in BOOLEAN :
        /\ PublishJsonAt(JSON_FLOAT_PRECISION, EntityDiscoveryTopic(ha_entities[k]),
                         EntityPayload(ha_entities[k]), TRUE, 1, "no", 0, TRUE, transport_ok)
        /\ ha' = [ha EXCEPT !.n = 1 - @, !.op = "entity_discovery"]
        /\ UNCHANGED <<now, routeVars, loopVars, netVars, storeVars, lateVars, ha_devices, dev_entities,
                       ha_entities>>

(***************************************************************************)
(* Service.publish called from two threads: a message handler on the       *)
(* thread of the transport and a loop task on the thread of run.  Nothing  *)
(* in publish is locked, so the threads alternate between the read of the  *)
(* cache, the write to it and the call of the transport.                   *)
(***************************************************************************)
MaxRaceCalls == 1

\* The two callers of publish.
Publishers == {"handler", "loop"}

\* The values they publish: a str and True.
RaceMessages == {VStr(<<"a">>), VBool(TRUE)}

NoRace ==
    [at |-> [p \in Publishers |-> [pc |-> "idle", topic |-> <<>>, m |-> VNone, calls |-> 0]],
     sent |-> <<>>, asked |-> {}, overlap |-> FALSE]

\* publish(ext, message, only_if_changed=True) up to the test: the topic and the
\* normalised message are locals, `last_message = self.last_key_values.get(topic, None)`
\* reads the cache, and `if last_message == message: return`.  overlap records that the
\* read came while another thread was between its own test and its write for the topic.
PublishTest(p) ==
    \E x \in OptionTargets, message \in RaceMessages :
        /\ race.at[p].pc = "idle"
        /\ race.at[p].calls < MaxRaceCalls
        /\ LET topic == AbsTopic(x.ext, EffGlobal(message, x.global_))
               m == EffMessage(message)
               same == SameAsCached(last_key_values[topic], m)
           IN  race' = [race EXCEPT
                          !.at[p] = [pc |-> IF same THEN "idle" ELSE "store", topic |-> topic,
                                     m |-> m, calls |-> @.calls + 1],
                          !.asked = @ \cup {<<topic, m>>},
                          !.overlap = @ \/ \E q \in Publishers \ {p} :
                                                /\ race.at[q].pc = "store"
                                                /\ race.at[q].topic = topic]
        /\ UNCHANGED <<now, pubVars, routeVars, loopVars, netVars, storeVars, haVars, classes,
                       inst>>

\* A write that does not reach the cache.
PublishStore_Lost(p) ==
    /\ race.at[p].pc = "store"
    /\ race' = [race EXCEPT !.at[p].pc = "send"]
    /\ UNCHANGED <<now, pubVars, routeVars, loopVars, netVars, storeVars, haVars, classes, inst>>

\* `self.last_key_values[topic] = message`
PublishStore(p) ==
    /\ race.at[p].pc = "store"
    /\ last_key_values' = [last_key_values EXCEPT ![race.at[p].topic] = Bare(race.at[p].m)]
    /\ race' = [race EXCEPT !.at[p].pc = "send"]
    /\ UNCHANGED <<now, handed, pub, routeVars, loopVars, netVars, storeVars, haVars, classes,
                   inst>>

\* `self.mqtt_client.publish(topic, message, retain=retain, qos=qos)`; an exception of
\* the transport is logged and the call returns all the same.
PublishHandOver(p) ==
    /\ race.at[p].pc = "send"
    /\ handed' = [handed EXCEPT ![race.at[p].topic] = [has |-> TRUE, v |-> race.at[p].m]]
    /\ race' = [race EXCEPT !.at[p].pc = "idle",
                            !.sent = Append(@, <<race.at[p].topic, race.at[p].m>>)]
    /\ UNCHANGED <<now, last_key_values, pub, routeVars, loopVars, netVars, storeVars, haVars,
                   classes, inst>>

(***************************************************************************)
(* Service classes and their declarations.  The decorators loop, handle    *)
(* and handle_global leave an object in the class body whose __set_name__  *)
(* runs when the class is created and puts the declaration on a list that  *)
(* is an attribute of the class; Service.__init__ reads the lists.         *)
(***************************************************************************)
MaxDecls == 2

\* The classes of the scenario and their base classes: A and B are services, C is a
\* service derived from A.
Bases == [A |-> "Service", B |-> "Service", C |-> "A"]

\* The class attributes that hold declarations.
Attrs == {"PREPARED_LOOPS", "CLASS_MQTT_HANDLERS", "CLASS_MQTT_GLOBAL_HANDLERS"}

\* The decorated functions of a class body, in the order of the body, each given by
\* the attribute its decorator appends to.
Bodies == UNION {[1..k -> Attrs] : k \in 0..MaxDecls}

\* class Service: the three lists are attributes of Service itself, empty lists.  heap
\* holds the list objects, own the attributes a class has in its own __dict__ (0 when
\* it has none and the lookup goes on in the base class).
ServiceClass ==
    [defined |-> {"Service"},
     own |-> [c \in {"Service"} \cup DOMAIN Bases |->
                [a \in Attrs |-> IF c # "Service" THEN 0
                                 ELSE IF a = "PREPARED_LOOPS" THEN 1
                                 ELSE IF a = "CLASS_MQTT_HANDLERS" THEN 2 ELSE 3]],
     heap |-> << <<>>, <<>>, <<>> >>,
     body |-> [c \in DOMAIN Bases |-> <<>>]]

NoService == [n |-> 0, cls |-> "", LOOPS |-> <<>>, mqtt_handlers |-> <<>>,
              mqtt_global_handlers |-> <<>>]

\* owner.PREPARED_LOOPS and the like: the attribute of the class itself or else of its
\* base class; the index of the list object.
RECURSIVE ClassAttr(_, _, _)
ClassAttr(cl, c, a) ==
    IF cl.own[c][a] # 0 THEN cl.own[c][a] ELSE ClassAttr(cl, Bases[c], a)

\* __set_name__(owner, name) of a decorator: `if not owner.X: owner.X = []` and then
\* `owner.X.append(...)`.  The declaration is the function, named by its class and its
\* place in the body.
SetName(cl, owner, a, fn) ==
    IF cl.heap[ClassAttr(cl, owner, a)] = <<>>
    THEN [cl EXCEPT !.heap = Append(@, <<fn>>), !.own[owner][a] = Len(cl.heap) + 1]
    ELSE [cl EXCEPT !.heap[ClassAttr(cl, owner, a)] = Append(@, fn)]

\* The __set_name__ calls of the body of class c from declaration i on.
RECURSIVE DefineBody(_, _, _, _)
DefineBody(cl, c, body, i) ==
    IF i > Len(body) THEN cl
    ELSE DefineBody(SetName(cl, c, body[i], <<c, i>>), c, body, i + 1)

\* A method of Service itself, named like the declared functions.
Builtin(name) == <<name, 0>>

\* A class statement: class c(Bases[c]) with a body of decorated functions.
DefineClass ==
    \E c \in DOMAIN Bases, body \in Bodies :
        /\ c \notin classes.defined
        /\ Bases[c] \in classes.defined
        /\ classes' = DefineBody([classes EXCEPT !.defined = @ \cup {c}, !.body[c] = body],
                                 c, body, 1)
        /\ UNCHANGED <<now, pubVars, routeVars, loopVars, netVars, storeVars, haVars, race, inst>>

\* c(): Service.__init__ copies CLASS_MQTT_HANDLERS, appends the enabled handler, copies
\* CLASS_MQTT_GLOBAL_HANDLERS, and _create_loops puts the heartbeat and then the
\* PREPARED_LOOPS on LOOPS, a list of the instance (add_loop makes it, the class
\* attribute LOOPS stays None).
NewService ==
    \E c \in classes.defined :
        /\ inst' = [n |-> 1 - inst.n, cls |-> c,
                    LOOPS |-> <<Builtin("_update_online_status")>>
                                \o classes.heap[ClassAttr(classes, c, "PREPARED_LOOPS")],
                    mqtt_handlers |-> Append(classes.heap[ClassAttr(classes, c,
                                                                    "CLASS_MQTT_HANDLERS")],
                                             Builtin("_on_enable")),
                    mqtt_global_handlers |->
                        classes.heap[ClassAttr(classes, c, "CLASS_MQTT_GLOBAL_HANDLERS")]]
        /\ UNCHANGED <<now, pubVars, routeVars, loopVars, netVars, storeVars, haVars, race,
                       classes>>

InitWith(class_handlers) ==
    /\ now = 0
    /\ last_key_values = [t \in Topics |-> Absent]
    /\ handed = [t \in Topics |-> [has |-> FALSE, v |-> VNone]]
    /\ pub = NoPublish
    /\ enabled = TRUE
    /\ mqtt_handlers = Append(class_handlers, [topic |-> <<"enabled">>, h |-> "_on_enable"])
    /\ mqtt_global_handlers = CLASS_MQTT_GLOBAL_HANDLERS
    /\ is_connected = FALSE
    /\ subscribed = {}
    /\ rt = NoMessage
    /\ conn = NoConnect
    /\ adding = NoAdd
    /\ cb = NoCallback
    /\ next_call = [i \in Loops |-> now]
    /\ stat_call_count = [i \in Loops |-> 0]
    /\ stat_cumulative_duration = [i \in Loops |-> 0]
    /\ stop = FALSE
    /\ sched = [pc |-> "check", i |-> 0, earliest |-> 0, t0 |-> 0, wake |-> 0, body |-> "",
                fired |-> <<>>]
    /\ stopped = [i \in Loops |-> FALSE]
    /\ ext_calls = 0
    /\ ev = NoEvent
    /\ since_reset = [i \in Loops |-> NoReturns]
    /\ broker = <<>>
    /\ e2e = NoEndToEnd
    /\ state_data = VMap(<<>>, <<>>)
    /\ st = NoStoreCall
    /\ InitRegistry
    /\ dev_entities = <<>>
    /\ ha = NoConstruction
    /\ race = NoRace
    /\ classes = ServiceClass
    /\ inst = NoService

InitService == InitWith(CLASS_MQTT_HANDLERS)

\* The publish pipeline alone: publish calls as time passes.
NextPublish == PublishCall \/ Tick

SpecPublish == InitService /\ [][NextPublish]_vars

\* The options of publish: calls with every type of value and every option.
NextOptions == PublishWithOptions

SpecOptions == InitService /\ [][NextOptions]_vars

\* Two threads publish, their steps in any order.
NextRace == \E p \in Publishers : PublishTest(p) \/ PublishStore(p) \/ PublishHandOver(p)

SpecRace == InitService /\ [][NextRace]_vars

\* Classes are defined and services constructed, in any order.
NextClasses == DefineClass \/ NewService

SpecClasses == InitService /\ [][NextClasses]_vars

\* Entities: devices and entities are constructed, commands arrive.
NextEntities == NewDevice \/ NewEntity \/ CommandMessage

SpecEntities == InitService /\ [][NextEntities]_vars

\* Discovery: a service declares its device and entities and publishes the documents.
NextDiscovery ==
    NewDevice \/ DeclareEntity \/ PublishDeviceDiscovery \/ PublishEntityDiscovery

SpecDiscovery == InitService /\ [][NextDiscovery]_vars

\* The persisted store: set_path and get_path calls.
NextState == SetPathCall \/ GetPathCall

SpecState == InitService /\ [][NextState]_vars

\* The structured path of publish: documents and precisions.
NextJson == PublishDocument

SpecJson == InitService /\ [][NextJson]_vars

\* The router alone: registrations, connection callbacks and inbound messages.
NextRoute ==
    \/ Message \/ AddHandler \/ AddGlobalHandler \/ AddCheck \/ AddSubscribe
    \/ OnConnect \/ ConnectSubscribe \/ ConnectPublish \/ OnDisconnect

SpecRoute == InitService /\ [][NextRoute]_vars

\* The run loop with its loops, and the calls other threads make on the loops.
Next ==
    \/ LoopStepBegin \/ RunExit \/ Skip \/ Invoke \/ HeartbeatBody \/ TaskStop \/ SetStop
    \/ Elapse \/ Return \/ GoSleep \/ Wake \/ ExtStop \/ ExtStart

Spec == InitService /\ [][Next]_vars

\* End to end: the loop tasks publish while the transport thread connects, subscribes
\* and receives.  The transport thread finishes a callback it has begun and goes on
\* to deliver what the broker holds for it.
NextEndToEnd ==
    \/ LoopPublish \/ Deliver
    \/ OnConnect \/ ConnectSubscribe \/ ConnectPublish \/ OnDisconnect

InitEndToEnd == InitWith(SenderHandlers)

SpecEndToEnd ==
    /\ InitEndToEnd
    /\ [][NextEndToEnd]_vars
    /\ WF_vars(ConnectSubscribe) /\ WF_vars(ConnectPublish) /\ SF_vars(Deliver)

(***************************************************************************)
(* The claims.                                                             *)
(***************************************************************************)
Handlers(calls) == [k \in 1..Len(calls) |-> calls[k].h]

MatchingHandlers(regs, msg_topic) ==
    Handlers(SelectSeq(regs, LAMBDA r : Matches(r.topic, msg_topic)))

\* C1: for every inbound message, the handlers _on_message invokes are exactly the
\* handlers of the registrations whose pattern matches the topic, each once, the global
\* registrations first and then the local ones, in registration order.
C1_FanOut ==
    [][rt'.n # rt.n =>
          Handlers(rt'.calls) =
              MatchingHandlers(AllHandlers(mqtt_global_handlers, mqtt_handlers), rt'.topic)]_vars

HandedOver(p) == p.outcome \in {"sent", "failed"}

Differs(entry, message) == entry.kind = "absent" \/ ~PyEq(entry.v, message)

Elapsed(entry, d, t) == entry.kind = "pair" /\ t >= entry.t + d

\* C3: a publish with only_if_changed = D is handed to the transport if and only if
\* the value differs from the cached value or at least D has elapsed since the cached
\* timestamp, and the cache entry becomes (value, now) when it is and stays as it was
\* when it is not.
C3_DurationDedup ==
    [][(pub'.n # pub.n /\ pub'.oic = "dur") =>
          LET entry == last_key_values[pub'.topic]
          IN  /\ HandedOver(pub') <=>
                     (Differs(entry, pub'.message) \/ Elapsed(entry, pub'.d, now))
              /\ HandedOver(pub') =>
                     last_key_values'[pub'.topic] = Pair(pub'.message, now)
              /\ ~HandedOver(pub') => last_key_values' = last_key_values]_vars

\* C4: a publish with only_if_changed=True is suppressed if and only if its normalized
\* value equals the value most recently handed to the transport for that topic.
C4_ChangeDetection ==
    [][(pub'.n # pub.n /\ pub'.oic = "yes") =>
          (pub'.outcome = "suppressed" <=>
               (handed[pub'.topic].has /\ PyEq(handed[pub'.topic].v, pub'.message)))]_vars

\* C5: no publish call raises to its caller.
C5_NeverRaises == pub.outcome # "raised"

\* C6: when run_if_needed examines a loop whose next_call is unset, the task is not
\* invoked, next_call and the statistics stay as they are, and get_remaining is None.
C6_InactiveNeverRuns ==
    [][\A i \in Loops :
          (sched.pc = "examine" /\ sched.i = i /\ next_call[i] = None /\ sched' # sched) =>
              /\ sched'.pc = "examine" /\ sched'.i = i + 1
              /\ next_call'[i] = None
              /\ stat_call_count'[i] = stat_call_count[i]
              /\ stat_cumulative_duration'[i] = stat_cumulative_duration[i]
              /\ GetRemaining(next_call[i], now) = None]_vars

\* C6 witness: run_if_needed has just skipped a loop whose next_call is unset.
C6_Witness == ev.op = "skip" /\ next_call[ev.loop] = None

\* C7: when the task of a due loop returns False, run_if_needed clears next_call and
\* leaves the statistics as they are; when it returns anything else, call_count grows
\* by one and next_call is set.
C7_ReturnValue ==
    [][(sched.pc = "running" /\ sched'.pc = "examine") =>
          LET i == sched.i
          IN  /\ ev'.ret = "False" =>
                     /\ next_call'[i] = None
                     /\ stat_call_count'[i] = stat_call_count[i]
                     /\ stat_cumulative_duration'[i] = stat_cumulative_duration[i]
              /\ ev'.ret # "False" =>
                     /\ next_call'[i] # None
                     /\ stat_call_count'[i] = stat_call_count[i] + 1]_vars

\* C7 witness: a task has just returned False and its loop is inactive.
C7_Witness == ev.op = "return" /\ ev.ret = "False" /\ next_call[ev.loop] = None

\* C8: a task is never invoked while stop() has been called on its loop and neither
\* start() nor restart() since.
C8_StoppedStaysStopped == ~(ev.op = "invoke" /\ ev.flag)

Rescheduled == ev.op = "return" /\ ev.ret \in {"None", "0"}

\* C9 as claimed: after a task that did not signal stop, next_call is the time at which
\* the call returned plus the period.
C9_DueFromReturn ==
    Rescheduled => next_call[ev.loop] = now + Intervals[ev.loop]

\* C9 as amended: after a task that did not signal stop, next_call is the time
\* run_if_needed read on entry, before it called the task, plus the period.
C9_DueFromEntry ==
    Rescheduled => next_call[ev.loop] = sched.t0 + Intervals[ev.loop]

\* C9 witness: a task that took time has returned and its loop is rescheduled.
C9_Witness ==
    Rescheduled /\ now > sched.t0 /\ next_call[ev.loop] = sched.t0 + Intervals[ev.loop]

ActiveDue == {next_call[i] : i \in {j \in Loops : next_call[j] # None}}

SetMin(S) == CHOOSE x \in S : \A y \in S : x <= y

\* C10: at the end of a tick the run loop sleeps min(MAX_LOOP_INTERVAL, time until the
\* nearest next_call of all active loops), and never a negative time.
C10_SleepNearestDue ==
    ev.op = "sleep" =>
        ev.amount = IF ActiveDue = {} THEN MAX_LOOP_INTERVAL
                    ELSE Max(0, Min(MAX_LOOP_INTERVAL, SetMin(ActiveDue) - now))

\* run() is inside its while loop: it has neither returned nor been left by an exception.
RunAlive == sched.pc \notin {"exited", "crashed"}

DueNow(i) == i \in Loops /\ Due(next_call[i], now)

\* C11: once the stop flag is set during a tick, the due loops that remain in the tick
\* are still invoked, the tick is completed (no exception leaves run), the check at the
\* top of run then makes run return without another tick, and after run has returned
\* no task is invoked.
C11_CooperativeStop ==
    [][/\ (stop /\ sched.pc = "examine" /\ DueNow(sched.i) /\ sched' # sched)
              => (sched'.pc = "running" /\ sched'.i = sched.i)
       /\ (stop /\ RunAlive) => sched'.pc # "crashed"
       /\ (stop /\ sched.pc = "check" /\ sched' # sched) => sched'.pc = "exited"
       /\ sched.pc = "exited" => sched'.pc = "exited"]_vars

\* C12: every loop is active after construction, and as long as the stop flag is not
\* set run stays in its while loop, every tick examines every loop, and a loop that is
\* due when it is examined is invoked: no active loop waits for ever.
C12_EveryLoopRuns ==
    [][/\ ev.op = "none" => \A i \in Loops : next_call[i] # None
       /\ ~stop' => sched'.pc \notin {"exited", "crashed"}
       /\ (sched.pc = "examine" /\ DueNow(sched.i) /\ sched' # sched)
              => (sched'.pc = "running" /\ sched'.i = sched.i)
       /\ (sched.pc = "examine" /\ sched'.pc = "sleeping") => sched.i = Len(Intervals) + 1]_vars

\* C19: a loop task that raises does not end the run loop, which goes on to the next
\* loop of the tick; and when a message handler raises, every registration matching
\* the message is still invoked.
C19_ErrorsIsolated ==
    [][/\ (ev'.op = "return" /\ ev'.ret = "raise" /\ ev' # ev)
              => (sched'.pc = "examine" /\ sched'.i = sched.i + 1)
       /\ (rt'.n # rt.n /\ rt'.raised)
              => Handlers(rt'.calls) =
                     MatchingHandlers(AllHandlers(mqtt_global_handlers, mqtt_handlers),
                                      rt'.topic)]_vars

\* The absolute topics of all registrations.
RegisteredTopics(globals, locals) ==
    {AllHandlers(globals, locals)[i].topic : i \in 1..Len(globals) + Len(locals)}

AddedSome ==
    Len(mqtt_handlers) + Len(mqtt_global_handlers)
        > Len(CLASS_MQTT_HANDLERS) + 1 + Len(CLASS_MQTT_GLOBAL_HANDLERS)

\* A registration that finds the service not connected issues no subscribe.
NoSubscribeWhenOffline ==
    (adding.pc = "check" /\ ~is_connected /\ adding' # adding)
        => (adding' = NoAdd /\ subscribed' = subscribed)

\* C13 as claimed: whenever the service is connected and no add_handler or
\* add_global_handler call is in progress, every registered topic has been subscribed
\* since the last successful connect; registering while not connected subscribes nothing.
C13_SubscribedWhenConnected ==
    [][/\ (is_connected' /\ adding'.pc = "idle")
              => RegisteredTopics(mqtt_global_handlers', mqtt_handlers') \subseteq subscribed'
       /\ NoSubscribeWhenOffline]_vars

\* C13 as amended: the same, whenever moreover no connect callback is in progress.
C13_SubscribedWhenSettled ==
    [][/\ (is_connected' /\ adding'.pc = "idle" /\ conn'.pc = "idle")
              => RegisteredTopics(mqtt_global_handlers', mqtt_handlers') \subseteq subscribed'
       /\ NoSubscribeWhenOffline]_vars

\* C13 witness: a handler was registered at run time, the service is connected, nothing
\* is in progress and every registered topic is subscribed.
C13_Witness ==
    /\ is_connected /\ adding.pc = "idle" /\ conn.pc = "idle" /\ AddedSome
    /\ RegisteredTopics(mqtt_global_handlers, mqtt_handlers) \subseteq subscribed

\* C14 as claimed: while _on_connect is in its subscribe loop the connected flag is not
\* yet true; it is true when the marker is published.
C14_SubscribeThenConnected ==
    /\ conn.pc = "subscribe" => ~is_connected
    /\ conn.pc = "publish" => is_connected

\* C14 as amended: _on_connect sets the connected flag first, then subscribes every
\* registered topic, then publishes the marker: the flag is true throughout the
\* subscribe loop, and the marker is published only after the loop, when every
\* registered topic has been subscribed.
C14_ConnectedThenSubscribe ==
    [][/\ conn'.pc \in {"subscribe", "publish"} => is_connected'
       /\ (conn'.pc = "publish" /\ adding'.pc = "idle")
              => RegisteredTopics(mqtt_global_handlers', mqtt_handlers') \subseteq subscribed'
       /\ handed' # handed => (conn.pc = "publish" /\ conn'.pc = "idle")]_vars

\* C14 witness: the subscribe loop of a connect is under way, a registered topic is
\* not subscribed yet, and the flag is already true.
C14_Witness ==
    /\ conn.pc = "subscribe" /\ is_connected
    /\ ~(RegisteredTopics(mqtt_global_handlers, mqtt_handlers) \subseteq subscribed)

Callback(op) == cb'.n # cb.n /\ cb'.op = op

\* C15: is_connected is false after construction; a connect callback with rc = 0 makes
\* it true, a disconnect callback makes it false, and nothing else changes it; a
\* connect callback with rc # 0 changes neither the flag nor the subscriptions and
\* publishes nothing.
C15_ConnectedFlag ==
    [][/\ cb.op = "none" => ~is_connected
       /\ (Callback("connect") /\ cb'.rc = 0) => is_connected'
       /\ Callback("disconnect") => ~is_connected'
       /\ (Callback("connect") /\ cb'.rc # 0)
              => /\ is_connected' = is_connected /\ subscribed' = subscribed
                 /\ handed' = handed /\ conn' = conn
       /\ (is_connected' # is_connected)
              => \/ is_connected' /\ Callback("connect") /\ cb'.rc = 0
                 \/ ~is_connected' /\ Callback("disconnect")]_vars

\* C15 witness: a connect callback with a non-zero result code has come after a
\* disconnect, and the service is still not connected.
C15_Witness == cb.op = "connect" /\ cb.rc # 0 /\ ~is_connected /\ subscribed # {}

\* The rule of C16, stated on the patterns themselves.
EndsInMarker(pattern) == Len(pattern) > 0 /\ pattern[Len(pattern)] = "#"

IsPrefix(prefix, t) ==
    Len(prefix) <= Len(t) /\ \A j \in 1..Len(prefix) : t[j] = prefix[j]

ClaimedMatch(pattern, t) ==
    IF EndsInMarker(pattern)
    THEN IsPrefix([j \in 1..Len(pattern) - 1 |-> pattern[j]], t)
    ELSE pattern = t

ClaimedCall(r, t) ==
    [h |-> r.h, wild |-> EndsInMarker(r.topic),
     suffix |-> IF EndsInMarker(r.topic)
                THEN [j \in 1..Len(t) - (Len(r.topic) - 1) |-> t[Len(r.topic) - 1 + j]]
                ELSE <<>>]

ClaimedCalls(regs, t) ==
    LET hit == SelectSeq(regs, LAMBDA r : ClaimedMatch(r.topic, t))
    IN  [k \in 1..Len(hit) |-> ClaimedCall(hit[k], t)]

AnyMatch(t) ==
    \E i \in 1..Len(mqtt_global_handlers) + Len(mqtt_handlers) :
        ClaimedMatch(AllHandlers(mqtt_global_handlers, mqtt_handlers)[i].topic, t)

\* C17: handle_message is called if and only if no registration matched the message;
\* the unhandled-topic error is logged if and only if nothing matched and
\* handle_message returned a false value.
C17_CatchAll ==
    [][rt'.n # rt.n =>
          /\ rt'.catchall <=> ~AnyMatch(rt'.topic)
          /\ rt'.error <=> (~AnyMatch(rt'.topic) /\ ~rt'.returned)]_vars

\* C17 witness: nothing matched, handle_message returned False, the error was logged.
C17_Witness == rt.n = 1 /\ rt.catchall /\ ~rt.returned /\ rt.error /\ ~AnyMatch(rt.topic)

\* C18: a message on <prefix>enabled sets enabled to (payload = "1") and counts as
\* handled: no handler raises, the catch-all is not called, no error is logged.
C18_EnabledToggle ==
    [][(rt'.n # rt.n /\ rt'.topic = data_topic_prefix \o <<"enabled">>) =>
          /\ enabled' = (rt'.payload = <<"1">>)
          /\ rt'.handled /\ ~rt'.raised /\ ~rt'.catchall /\ ~rt'.error]_vars

\* What the claim expects a publish of "normal" to string to lead to: one call of the
\* handler registered for string, with the published payload.
NormalReceived == <<[h |-> "recv_string", payload |-> <<"normal">>]>>

AtBroker(id) == \E k \in 1..Len(broker) : broker[k].id = id

OncePerPublish(ids) ==
    \A id \in ids : e2e.seen[id] = IF AtBroker(id) THEN <<>> ELSE NormalReceived

\* C20 (as claimed): end to end, every publish of "normal" to string that a connected
\* service makes leads to exactly one invocation of the handler registered for string,
\* with payload "normal", and to no other invocation: none before the broker delivers
\* the message, exactly that one from then on, and the delivery comes.
C20_ReceivedWhenConnected ==
    /\ [](OncePerPublish(e2e.connected))
    /\ \A id \in PublishIds : (id \in e2e.connected) ~> (e2e.seen[id] = NormalReceived)

\* C20 (amended): the same for every such publish made while the service is connected
\* and its connect callback has returned, that is, after the bulk subscribe.
C20_ReceivedWhenSettled ==
    /\ [](OncePerPublish(e2e.settled))
    /\ \A id \in PublishIds : (id \in e2e.settled) ~> (e2e.seen[id] = NormalReceived)

\* C20 witness: a publish made after the connect callback returned has been delivered
\* and has led to the one call of recv_string.
C20_Witness == \E id \in e2e.settled : e2e.seen[id] = NormalReceived /\ ~AtBroker(id)

\* The step in which the body of the heartbeat task runs.
HeartbeatFires == sched.pc = "running" /\ sched.body = "pending" /\ sched'.body = "done"

MarkerHanded ==
    /\ pub'.n # pub.n
    /\ HandedOver(pub')
    /\ pub'.topic = willtopic
    /\ pub'.message = VStr(<<"1">>)
    /\ pub'.retain
    /\ handed'[willtopic] = [has |-> TRUE, v |-> VStr(<<"1">>)]

AllReset ==
    \A i \in Loops : stat_call_count'[i] = 0 /\ stat_cumulative_duration'[i] = 0

\* C21 (as claimed): each firing of the heartbeat hands "1", retained, on the liveness
\* topic to the transport and resets the statistics of every loop, and the call count
\* it finds for a loop is the number of invocations of that loop that completed since
\* the reset of the previous firing.
C21_WindowedCounts ==
    [][HeartbeatFires =>
          /\ MarkerHanded
          /\ AllReset
          /\ \A i \in Loops : stat_call_count[i] = since_reset[i].returned]_vars

\* C21 (amended): the same, where the invocations counted are those that completed
\* without the stop signal (an invocation that returns False records no statistics).
C21_WindowedCountsNoSignal ==
    [][HeartbeatFires =>
          /\ MarkerHanded
          /\ AllReset
          /\ \A i \in Loops :
                 stat_call_count[i] = since_reset[i].returned - since_reset[i].signalled]_vars

\* C21 witness: the heartbeat has fired and reset before (its own count is 1, from that
\* firing) and fires again with a declared loop that ran in the window between.
C21_Witness ==
    /\ sched.pc = "running" /\ sched.body = "pending"
    /\ stat_call_count[Heartbeat] = 1
    /\ \E i \in Loops \ {Heartbeat} : stat_call_count[i] >= 1
    /\ handed[willtopic].has

\* The scheduler examines loop sched.i and goes on to the next.
Examined == sched.pc \in {"examine", "running"} /\ sched'.pc = "examine" /\ sched'.i # sched.i

C24_OptionsApplied ==
    [][(pub'.n # pub.n /\ HandedOver(pub')) =>
          (/\ pub'.topic = AbsTopic(pub'.given.ext, pub'.given.global_)
           /\ pub'.retain = pub'.given.retain
           /\ pub'.qos = pub'.given.qos)]_vars

\* r is o with nothing changed but its floats, each of which is a nearest multiple of
\* 10^-precision; a tuple has become the list of its elements.
RECURSIVE OnlyFloatsRounded(_, _, _)
OnlyFloatsRounded(r, o, precision) ==
    IF o.ty = "float"
    THEN /\ r.ty = "float"
         /\ r.n % Pow10(FloatDigits - precision) = 0
         /\ 2 * (r.n - o.n) <= Pow10(FloatDigits - precision)
         /\ 2 * (o.n - r.n) <= Pow10(FloatDigits - precision)
    ELSE IF o.ty \in {"dict", "list", "tuple"}
    THEN /\ r.ty = (IF o.ty = "tuple" THEN "list" ELSE o.ty)
         /\ r.s = o.s
         /\ Len(r.kids) = Len(o.kids)
         /\ \A i \in 1..Len(o.kids) : OnlyFloatsRounded(r.kids[i], o.kids[i], precision)
    ELSE r = o

RECURSIVE HasFloat(_)
HasFloat(o) == o.ty = "float" \/ \E i \in 1..Len(o.kids) : HasFloat(o.kids[i])

SomeFloatText == <<"{", "\"", "some_float", "\"", ":", " ", "1", ".", "2", "}">>

\* C30: what the structured path hands to the transport is the JSON text of the
\* document in which every float leaf, at any depth, is a nearest multiple of
\* 10^-precision and nothing else differs; a document without floats is encoded as it
\* is; with precision 1, {"some_float": 1.2333336} is handed over as {"some_float": 1.2}.
C30_FloatLeavesRounded ==
    [][(pub'.n # pub.n /\ HandedOver(pub')) =>
          LET g == pub'.given
              r == RoundFloatsAt(g.message, g.precision)
          IN  /\ OnlyFloatsRounded(r, g.message, g.precision)
              /\ pub'.message = VStr(JsonText(r))
              /\ ~HasFloat(g.message) => pub'.message = VStr(JsonText(g.message))
              /\ (g.message = SomeFloatDocument /\ g.precision = 1)
                     => pub'.message.s = SomeFloatText]_vars

\* C30 witness: the nested document was handed to the transport by a service with
\* precision 1, after the document of the test.
C30_Witness ==
    /\ pub.outcome = "sent" /\ pub.given.message = NestedDocument /\ pub.given.precision = 1
    /\ handed[AbsTopic(<<"json">>, FALSE)].has
    /\ last_key_values[AbsTopic(<<"json">>, FALSE)] = Bare(VStr(SomeFloatText))

\* The value at the end of a path that leads through dicts only.
RECURSIVE Lookup(_, _)
Lookup(d, keys) ==
    IF keys = <<>> THEN [found |-> TRUE, v |-> d]
    ELSE IF d.ty # "dict" \/ ~KeyIn(Head(keys), d) THEN [found |-> FALSE, v |-> VNone]
    ELSE Lookup(Item(d, Head(keys)), Tail(keys))

\* C29: after any set_path calls, get_path does not raise; it returns the stored value
\* when the whole path is there and the default otherwise, also when a proper prefix
\* of the path holds a scalar; after a set_path of the same path it returns the value
\* just set.
C29_GetNeverFails ==
    st.op = "get" =>
        /\ ~st.raised
        /\ st.result = IF Lookup(state_data, st.keys).found
                       THEN Lookup(state_data, st.keys).v ELSE st.default
        /\ (st.sets > 0 /\ ~st.set_raised /\ st.set_keys = st.keys) => st.result = st.set_value

\* An entity constructor has returned or raised.
Constructed == ha'.n # ha.n /\ ha'.op = "entity"

\* C23: publishing a discovery document, of a device or of an entity without a device,
\* is one call of the transport, with retain set and QoS 1.
C23_DiscoveryRetainedAtLeastOnce ==
    [][(pub'.n # pub.n /\ pub'.given.ext \in DiscoveryTopics) =>
          /\ HandedOver(pub')
          /\ pub'.topic = pub'.given.ext
          /\ pub'.retain
          /\ pub'.qos = 1]_vars

\* The configurations C25 lists as invalid.
Invalid(args) ==
    \/ args.device # Null /\ args.service
    \/ args.device = Null /\ ~args.service
    \/ args.kind = "select" /\ args.options = <<>>
    \/ args.kind = "climate" /\ args.precision \notin {Null, <<"0.1">>, <<"0.5">>, <<"1.0">>}
    \/ args.kind = "climate" /\ args.temperature_unit \notin {Null, <<"C">>, <<"F">>}

\* C25: the construction of an entity with both a device and a service, with neither, of
\* a Select without options, of a ClimateController with a precision other than "0.1",
\* "0.5", "1.0" or a temperature unit other than "C", "F", ends in a configuration error
\* (ValueError).
C25_InvalidRejected ==
    [][(Constructed /\ Invalid(ha'.args)) => ha'.outcome = "ValueError"]_vars

\* The registrations of the callback of the entities, and its calls for a message.
CallbackRegistration(args) == [topic |-> args.command_topic_postfix, h |-> "command_callback"]

CallbackCalls(calls) == Len(SelectSeq(calls, LAMBDA c : c.h = "command_callback"))

\* C26: an entity, with or without a device, that is given a callback with its topic
\* postfix adds exactly one registration (postfix, callback) to the local handlers, and
\* one without a callback adds none; a message on <prefix><postfix> then calls the
\* callback once for every such entity.
C26_OneRegistration ==
    [][/\ (Constructed /\ ~Invalid(ha'.args) /\ ha'.args.state_topic_postfix # <<>>) =>
            IF ha'.args.command_callback
            THEN /\ ha'.outcome = "ok"
                 /\ mqtt_handlers' = Append(mqtt_handlers, CallbackRegistration(ha'.args))
            ELSE mqtt_handlers' = mqtt_handlers
       /\ (rt'.n # rt.n /\ rt'.topic = data_topic_prefix \o <<"c">>) =>
            CallbackCalls(rt'.calls) = ha.callbacks]_vars

\* The ids C27 gives.
ClaimedDefaultId(args) ==
    IF args.default_entity_id # Null THEN args.default_entity_id
    ELSE IF HasStateTopic(args.kind)
    THEN <<args.kind, ".">> \o Replace(args.state_topic_postfix, "/", "_")
    ELSE <<args.kind, ".">> \o clean_string(args.name)

ClaimedUniqueId(args) ==
    IF args.unique_id # Null THEN args.unique_id
    ELSE (IF args.device # Null THEN args.device ELSE clean_string(SERVICE_NAME))
            \o <<"_", "_">> \o Replace(ClaimedDefaultId(args), ".", "_")

\* C27: without ids from the caller, an entity with a state topic gets the default id
\* <kind>.<state topic postfix with _ for />, a command-only entity <kind>.<cleaned
\* name>, and the unique id is the id of the owner, "__" and the default id with _ for
\* the dots; ids the caller gives are kept.
C27_DerivedIds ==
    [][(Constructed /\ ha'.outcome = "ok") =>
          /\ ha'.entity.default_entity_id = ClaimedDefaultId(ha'.args)
          /\ ha'.entity.unique_id = ClaimedUniqueId(ha'.args)]_vars

\* The entities of the device, each once, and whether their unique ids tell them apart.
Owned(i) == {dev_entities[i][k] : k \in 1..Len(dev_entities[i])}

DistinctIds(i) == \A e1, e2 \in Owned(i) : e1.unique_id = e2.unique_id => e1 = e2

\* C28: publish_discovery of a registered device whose n entities have pairwise distinct
\* unique ids emits one document; its components map has exactly n keys, the unique ids
\* of the entities, each with the payload of that entity and its platform tag, and
\* availability[0].topic is the liveness topic <prefix>online of the service.
C28_ComponentsByUniqueId ==
    [][(pub'.n # pub.n /\ ha'.op = "device_discovery"
            /\ DistinctIds(DeviceIndex(TheDevice))) =>
          LET document == pub'.given.message
              components == Item(document, "components")
              owned == Owned(DeviceIndex(TheDevice))
          IN  /\ HandedOver(pub')
              /\ pub'.message = JsonDumps(document)
              /\ Len(components.s) = Cardinality(owned)
              /\ {components.s[k] : k \in 1..Len(components.s)}
                    = {Join(e.unique_id) : e \in owned}
              /\ \A e \in owned :
                    /\ Item(components, Join(e.unique_id)) = EntityPayload(e)
                    /\ Item(Item(components, Join(e.unique_id)), "platform") = VStr(<<e.kind>>)
              /\ Item(Item(document, "availability").kids[1], "topic")
                    = VStr(data_topic_prefix \o <<"online">>)]_vars

\* C28 witness: the document of a device with a sensor and one more entity
\* was handed to the transport: two components, one entity being on the list twice.
C28_Witness ==
    /\ ha.op = "device_discovery" /\ pub.outcome = "sent"
    /\ Len(dev_entities[1]) = 3 /\ Cardinality(Owned(1)) = 2 /\ DistinctIds(1)
    /\ Len(Item(pub.given.message, "components").s) = 2
\* C33: after a construction the list of the device holds the entities that were
\* constructed without an error, each once: a construction that ends without an error
\* appends the entity once to the list of its device, and a construction that raises
\* leaves the lists of the devices and the handlers of the service as they were.
C33_ListOfSuccessful ==
    [][Constructed =>
          IF ha'.outcome = "ok"
          THEN ha'.entity.device # Null =>
                  dev_entities' = [dev_entities EXCEPT ![DeviceIndex(ha'.entity.device)]
                                                          = Append(@, ha'.entity)]
          ELSE /\ dev_entities' = dev_entities
               /\ mqtt_handlers' = mqtt_handlers]_vars
\* C34 as claimed: when the transport raised on a publish with only_if_changed=True,
\* the next publish of the same value to the same topic is handed to the transport
\* again.
C34_FailedSentAgain ==
    (pub.oic = "yes" /\ pub.prev = "failed") => HandedOver(pub)

\* C34 amended: a publish with only_if_changed=True stores its value for the topic
\* before the transport is called and the value stays stored when the transport raises,
\* so the next publish of the same value to the same topic is suppressed as after a
\* transport call that returned.
C34_FailedStillSuppressed ==
    [][pub'.n # pub.n =>
          /\ (pub'.oic = "yes" /\ HandedOver(pub')) =>
                 last_key_values'[pub'.topic] = Bare(pub'.message)
          /\ (pub'.oic = "yes" /\ pub'.prev = "failed") =>
                 /\ pub'.outcome = "suppressed"
                 /\ last_key_values' = last_key_values]_vars

\* C34 witness: the transport raised on a value and the same value, published again to
\* the same topic, was suppressed.
C34_Witness == pub.oic = "yes" /\ pub.prev = "failed" /\ pub.outcome = "suppressed"
\* Both threads have published, no call is in progress, and all the calls were
\* publishes of one value to one topic.
BothPublishedSame ==
    /\ \A p \in Publishers : race.at[p].pc = "idle" /\ race.at[p].calls >= 1
    /\ Cardinality(race.asked) = 1

\* C32 as claimed: when a handler and a loop task publish the same value to the same
\* topic with only_if_changed=True, in any interleaving of their steps, exactly one
\* call of the transport results.
C32_ExactlyOneCall == BothPublishedSame => Len(race.sent) = 1

\* C32 amended: the cache is not locked.  When the two threads publish the same value
\* to the same topic with only_if_changed=True and the cache did not hold the value,
\* at least one and at most two calls of the transport result, each with that value,
\* and the cache holds the value afterwards; exactly one call results unless one
\* thread read the cache while the other was between its read and its write.
C32_OneUnlessOverlap ==
    BothPublishedSame =>
        /\ Len(race.sent) \in 1..Cardinality(Publishers)
        /\ \A i \in 1..Len(race.sent) : race.sent[i] \in race.asked
        /\ \A x \in race.asked : last_key_values[x[1]] = Bare(x[2])
        /\ ~race.overlap => Len(race.sent) = 1

\* C32 witness: both threads read the cache before either wrote to it, and the value
\* was handed to the transport twice.
C32_Witness == BothPublishedSame /\ race.overlap /\ Len(race.sent) = 2
\* The functions a class declares for the attribute a: those of its base classes, the
\* base first, and then its own, in the order of the class bodies.
RECURSIVE DeclaredFor(_, _)
DeclaredFor(c, a) ==
    IF c = "Service" THEN <<>>
    ELSE DeclaredFor(Bases[c], a)
            \o SelectSeq([i \in 1..Len(classes.body[c]) |->
                             IF classes.body[c][i] = a THEN <<c, i>> ELSE <<>>],
                         LAMBDA fn : fn # <<>>)

\* C31: a service runs the heartbeat and the tasks declared for its own class and
\* dispatches to the handlers declared for its own class and the enabled handler,
\* whatever other classes, siblings or subclasses with declarations of their own, have
\* been defined.
C31_NoLeak ==
    inst.cls = "" \/
        /\ inst.LOOPS = <<Builtin("_update_online_status")>>
                            \o DeclaredFor(inst.cls, "PREPARED_LOOPS")
        /\ inst.mqtt_handlers
              = Append(DeclaredFor(inst.cls, "CLASS_MQTT_HANDLERS"), Builtin("_on_enable"))
        /\ inst.mqtt_global_handlers = DeclaredFor(inst.cls, "CLASS_MQTT_GLOBAL_HANDLERS")
====
